---------------------------- MODULE Spec2Model ----------------------------
(***************************************************************************)
(* A model of UQpy's sampling methods (src/UQpy/SampleMethods.py):         *)
(*   - MCMC: the constructor's validation (init_mcmc), the three kernels   *)
(*     of run_mcmc (MH, MMH, Stretch) and the thinning of the raw chain;   *)
(*   - Strata: the full-factorial stratification of the unit hypercube.    *)
(*                                                                         *)
(* Python values are tagged records, so that the code's tests on a         *)
(* value's type (type(x).__name__ == 'str'), on None and on object         *)
(* identity (x is 'MH') can be modelled as the interpreter evaluates them. *)
(* A str carries whether it is the interned literal: `x is 'MH'` holds for *)
(* the interned object only, `x == 'MH'` for every equal string (a string  *)
(* read from a configuration file at run time is equal, not identical).    *)
(*                                                                         *)
(* Real numbers are restricted to an integer lattice: a chain coordinate   *)
(* is a member of Coord, a density is an integer weight (thousandths of    *)
(* the density's maximum), and a random draw is a nondeterministic choice  *)
(* among the lattice values the distribution's support contains.           *)
(***************************************************************************)
EXTENDS Integers, Sequences, FiniteSets, TLC

VARIABLES
    kwargs,     \* the keyword arguments of the call MCMC(...)
    self,       \* the MCMC object's attributes (set by __init__, init_mcmc)
    pc,         \* where the constructor call stands
    err,        \* the exception that ended the call ("none": none so far)
    samples,    \* run_mcmc's raw buffer: a sequence of rows
    i,          \* run_mcmc's outer loop index
    j,          \* MMH: the coordinate the inner loop is at
    candidate,  \* the candidate of the last proposal
    current,    \* MMH joint_pdf: the working current vector
    accept,     \* the outcome of the last accept/reject test
    S,          \* Stretch: the raw row index of the last companion point
    rngs,       \* the random generators run_mcmc has drawn from
    output,     \* the returned chain (self.samples)
    strata,     \* the Strata object under construction and fullfact's locals
    obj         \* the MCS, LHS, PSS or STS object under construction and its locals

mcmcVars == <<self, pc, err, samples, i, j, candidate, current, accept, S, rngs, output>>
vars == <<self, pc, err, samples, i, j, candidate, current, accept, S, rngs, output, strata, kwargs, obj>>

---------------------------------------------------------------------------
(* Bounds of the model *)

MaxDim == 3          \* largest dimension given
MaxN == 2            \* largest nsamples given to MH and MMH
MaxEnsembleN == 4    \* largest nsamples given to Stretch
MaxJump == 2         \* largest jump given
MaxBurn == 1         \* largest nburn given
MaxCoord == 2        \* chain coordinates are drawn from 0..MaxCoord
MaxRows == 3         \* most rows of a two-dimensional seed

Coord == 0..MaxCoord

---------------------------------------------------------------------------
(* Python values *)

None == [t |-> "None"]
PyInt(n) == [t |-> "int", n |-> n]
PyStr(s) == [t |-> "str", s |-> s, interned |-> TRUE]
PyStrDyn(s) == [t |-> "str", s |-> s, interned |-> FALSE]
PyList(q) == [t |-> "list", items |-> q]
Function(f) == [t |-> "function", f |-> f]
\* numpy arrays hold their rows; a vector (nd = 1) is held as its one row
Array1(q) == [t |-> "ndarray", nd |-> 1, a |-> <<q>>]
Array2(rows) == [t |-> "ndarray", nd |-> 2, a |-> rows]
\* the elements of a vector
Vec(x) == x.a[1]

\* x is None
IsNone(x) == x.t = "None"
\* x is 'lit': the same object as the interned literal
Is(x, lit) == x.t = "str" /\ x.interned /\ x.s = lit
\* x == 'lit'
Eq(x, lit) == x.t = "str" /\ x.s = lit
\* type(x).__name__
TypeName(x) == x.t

Repeat(x, n) == [k \in 1..n |-> x]
\* np.zeros(n)
Zeros(n) == Repeat(0, n)
\* np.zeros([r, c])
Zeros2(r, c) == Repeat(Zeros(c), r)
\* arr.shape
Shape(x) == IF x.nd = 1 THEN <<Len(x.a[1])>>
            ELSE <<Len(x.a), IF Len(x.a) = 0 THEN 0 ELSE Len(x.a[1])>>
\* arr.__len__()
ArrayLen(x) == Shape(x)[1]


---------------------------------------------------------------------------
(* Exceptions.  An exception ends the call; `where` is the method that     *)
(* raised it.                                                              *)

NoError == [type |-> "none", msg |-> "", where |-> ""]
Exception(type, msg, where) == [type |-> type, msg |-> msg, where |-> where]

\* the result of a validation step: the object as the step leaves it, and
\* the exception the step raised, if any
Ok(s) == [self |-> s, err |-> NoError]
Raise(s, type, msg) == [self |-> s, err |-> Exception(type, msg, "init_mcmc")]
\* statements in sequence: the next statement runs unless one has raised
Then(r, Step(_)) == IF r.err # NoError THEN r ELSE Step(r.self)

---------------------------------------------------------------------------
(* Distributions.pdf applied to a str (init_mcmc passes pdf_target as it   *)
(* is): the loop indexes the string's characters; no character is a        *)
(* built-in name, so the outcome depends on custom_dist.py in the working  *)
(* directory: absent, present without the name, present with the name (the *)
(* assignment dist[i] = ... to a str then fails).                          *)

CustomDist == {"absent", "undefined", "defined"}

PdfOfStrError(cd) ==
    CASE cd = "absent" -> Exception("NotImplementedError", "Unidentified pdf_type", "pdf")
      [] cd = "undefined" -> Exception("AttributeError", "custom_dist has no such attribute", "pdf")
      [] OTHER -> Exception("TypeError", "'str' object does not support item assignment", "pdf")

---------------------------------------------------------------------------
(* MCMC.init_mcmc, statement by statement *)

CheckDimension(s) ==
    Ok([s EXCEPT !.dimension = IF IsNone(@) THEN PyInt(1) ELSE @])

CheckNsamples(s) ==
    IF IsNone(s.nsamples)
    THEN Raise(s, "NotImplementedError", "Number of samples not defined.")
    ELSE Ok(s)

CheckSeed(s) ==
    LET s1 == IF IsNone(s.seed)
              THEN [s EXCEPT !.seed = Array1(Zeros(s.dimension.n))]
              ELSE s
    IN  IF ~Is(s1.algorithm, "Stretch")
        THEN IF ArrayLen(s1.seed) # s1.dimension.n
             THEN Raise(s1, "NotImplementedError", "Incompatible dimensions in 'seed'.")
             ELSE Ok(s1)
        ELSE IF Shape(s1.seed)[1] < 3
             THEN Raise(s1, "NotImplementedError", "Ensemble size must be > 2.")
             ELSE Ok(s1)

CheckJump(s) ==
    Ok([s EXCEPT !.jump = IF IsNone(@) THEN PyInt(1) ELSE @])

CheckProposalType(s) ==
    LET t1 == IF IsNone(s.pdf_proposal_type) THEN PyStr("Uniform") ELSE s.pdf_proposal_type
        t2 == IF TypeName(t1) = "str" THEN PyList(<<t1.s>>) ELSE t1
        s2 == [s EXCEPT !.pdf_proposal_type = t2]
        n  == Len(t2.items)
    IN  IF \E k \in 1..n : t2.items[k] \notin {"Uniform", "Normal"}
        THEN Raise(s2, "ValueError", "Unrecognized type for proposal distribution.")
        ELSE IF Is(s.algorithm, "MH") /\ n # 1
        THEN Raise(s2, "ValueError", "MH algorithm can only take one proposal distribution.")
        ELSE IF n # s.dimension.n
        THEN IF n = 1
             THEN Ok([s2 EXCEPT !.pdf_proposal_type = PyList(Repeat(t2.items[1], s.dimension.n))])
             ELSE Raise(s2, "NotImplementedError", "Incompatible dimensions in 'pdf_proposal_type'.")
        ELSE Ok(s2)

CheckProposalScale(s) ==
    LET c1 == IF IsNone(s.pdf_proposal_scale)
              THEN IF Eq(s.algorithm, "Stretch") THEN PyInt(2) ELSE PyInt(1)
              ELSE s.pdf_proposal_scale
        c2 == IF TypeName(c1) # "list" THEN PyList(<<c1.n>>) ELSE c1
        s2 == [s EXCEPT !.pdf_proposal_scale = c2]
        n  == Len(c2.items)
    IN  IF n # s.dimension.n
        THEN IF n = 1
             THEN Ok([s2 EXCEPT !.pdf_proposal_scale = PyList(Repeat(c2.items[1], s.dimension.n))])
             ELSE Raise(s2, "NotImplementedError", "Incompatible dimensions in 'pdf_proposal_scale'.")
        ELSE Ok(s2)

CheckTargetType(s) ==
    LET t1 == IF Is(s.algorithm, "MMH") /\ IsNone(s.pdf_target_type)
              THEN PyStr("marginal_pdf") ELSE s.pdf_target_type
        t2 == IF Is(s.algorithm, "Stretch") THEN PyStr("joint_pdf") ELSE t1
        s2 == [s EXCEPT !.pdf_target_type = t2]
    IN  IF ~(Eq(t2, "joint_pdf") \/ Eq(t2, "marginal_pdf"))
        THEN Raise(s2, "ValueError", "Unrecognized type for target distribution.")
        ELSE Ok(s2)

CheckAlgorithm(s) ==
    IF IsNone(s.algorithm)
    THEN Ok([s EXCEPT !.algorithm = PyStr("MMH")])
    ELSE IF ~(Eq(s.algorithm, "MH") \/ Eq(s.algorithm, "MMH") \/ Eq(s.algorithm, "Stretch"))
    THEN Raise(s, "NotImplementedError", "Unrecognized MCMC algorithm.")
    ELSE Ok(s)

\* The default targets are closures over scipy's densities: "norm" is
\* sp.norm.pdf, "mvn" is sp.multivariate_normal.pdf with zero mean and
\* identity covariance.
CheckTarget(s, cd) ==
    IF TypeName(s.pdf_target) = "str"
    THEN [self |-> s, err |-> PdfOfStrError(cd)]
    ELSE IF IsNone(s.pdf_target) /\ Is(s.algorithm, "MMH")
    THEN IF s.dimension.n = 1 \/ Is(s.pdf_target_type, "marginal_pdf")
         THEN IF s.dimension.n = 1
              THEN Ok([s EXCEPT !.pdf_target = PyList(<<"norm">>)])
              ELSE Ok([s EXCEPT !.pdf_target = PyList(Repeat("norm", s.dimension.n))])
         ELSE Ok([s EXCEPT !.pdf_target = PyList(<<"mvn">>)])
    ELSE IF IsNone(s.pdf_target)
    THEN IF s.dimension.n = 1
         THEN Ok([s EXCEPT !.pdf_target = PyList(<<"norm">>)])
         ELSE Ok([s EXCEPT !.pdf_target = PyList(<<"mvn">>)])
    ELSE IF TypeName(s.pdf_target) # "list"
    THEN Ok([s EXCEPT !.pdf_target = PyList(<<s.pdf_target.f>>)])
    ELSE Ok(s)

CheckTargetParams(s) ==
    LET p1 == IF IsNone(s.pdf_target_params) THEN PyList(<<>>) ELSE s.pdf_target_params
        p2 == IF TypeName(p1) # "list" THEN PyList(<<p1>>) ELSE p1
    IN  Ok([s EXCEPT !.pdf_target_params = p2])

CheckNburn(s) ==
    Ok([s EXCEPT !.nburn = IF IsNone(@) THEN PyInt(0) ELSE @])

\* init_mcmc as a whole; cd is the state of custom_dist.py
init_mcmc(s, cd) ==
    LET CheckTargetCd(x) == CheckTarget(x, cd)
    IN  Then(Then(Then(Then(Then(Then(Then(Then(Then(Then(
          CheckDimension(s), CheckNsamples), CheckSeed), CheckJump),
          CheckProposalType), CheckProposalScale), CheckTargetType),
          CheckAlgorithm), CheckTargetCd), CheckTargetParams), CheckNburn)

\* "configuration error": an exception init_mcmc itself raises
ConfigurationError(e) ==
    e.where = "init_mcmc" /\ e.type \in {"NotImplementedError", "ValueError"}

---------------------------------------------------------------------------
(* numpy indexing and assignment *)

Unbound == [t |-> "unbound"]
IsBound(x) == x.t # "unbound"

\* buf[k] with the code's 0-based index
At(buf, k) == buf[k + 1]
\* buf[a:b]: a slice is cut to the rows the buffer has
Slice(buf, a, b) ==
    LET hi == IF b < Len(buf) THEN b ELSE Len(buf)
    IN  IF hi <= a THEN <<>> ELSE [k \in 1..(hi - a) |-> buf[a + k]]
\* buf[a:b] = rows
SetRows(buf, a, rows) ==
    [k \in 1..Len(buf) |-> IF k > a /\ k <= a + Len(rows) THEN rows[k - a] ELSE buf[k]]

\* an array as a matrix: a vector is one row
AsMatrix(x) == x.a
\* dst[...] = a, where dst has r rows and c columns: numpy broadcasts a's
\* rows and columns of length 1 and refuses every other mismatch
CanAssign(a, r, c) ==
    LET m == AsMatrix(a)
    IN  /\ Len(m) \in {1, r}
        /\ \A k \in 1..Len(m) : Len(m[k]) \in {1, c}
Assigned(a, r, c) ==
    LET m == AsMatrix(a)
    IN  [p \in 1..r |-> [q \in 1..c |->
            LET row == m[IF Len(m) = 1 THEN 1 ELSE p]
            IN  row[IF Len(row) = 1 THEN 1 ELSE q]]]

---------------------------------------------------------------------------
(* Densities on the lattice *)

RECURSIVE SumSq(_)
SumSq(x) == IF x = <<>> THEN 0 ELSE x[1] * x[1] + SumSq(Tail(x))

\* exp(-k/2) in millionths, rounded down and never rounded to zero: the
\* normal density is positive everywhere
\* a weight is never rounded to 0
Floor1(w) == IF w < 1 THEN 1 ELSE w

RECURSIVE NormWeight(_)
NormWeight(k) ==
    IF k = 0 THEN 1000000
    ELSE CHOOSE w \in {Floor1(v) : v \in {(NormWeight(k - 1) * 607) \div 1000}} : TRUE

\* a user-supplied density with bounded support: 2 at 0, 1 at 1, 0 elsewhere,
\* per coordinate
RECURSIVE UserWeight(_)
UserWeight(x) ==
    IF x = <<>> THEN 1
    ELSE (CASE x[1] = 0 -> 2 [] x[1] = 1 -> 1 [] OTHER -> 0) * UserWeight(Tail(x))

\* a user-supplied density with a gap in its support: 1 at the even
\* coordinates, 0 at the odd ones
RECURSIVE GappedWeight(_)
GappedWeight(x) ==
    IF x = <<>> THEN 1
    ELSE (IF x[1] % 2 = 0 THEN 1 ELSE 0) * GappedWeight(Tail(x))

\* pdf_(x, params) up to the density's constant factor.  A one-element x
\* given to the d-dimensional normal is broadcast against its mean.
Density(f, x, d) ==
    CASE f = "norm" -> NormWeight(SumSq(x))
      [] f = "mvn"  -> IF Len(x) = 1 THEN NormWeight(d * SumSq(x)) ELSE NormWeight(SumSq(x))
      [] f = "gapped" -> GappedWeight(x)
      [] OTHER      -> UserWeight(x)

\* sp.norm.pdf of a vector is a vector: the acceptance test on it is an
\* array, whose truth value numpy refuses
DensityIsArray(f, x) == f = "norm" /\ Len(x) > 1

\* a test that does not look at the densities
AcceptAny(num, den) == {"accept", "reject"}

\* accept = np.random.random() < num / den, the draw being in [0, 1).
\* A zero denominator raises ZeroDivisionError when the density returned a
\* Python float and gives inf or nan (with a warning) when it returned a
\* numpy float: inf accepts, nan rejects.
AcceptOutcomes(num, den) ==
    IF den = 0 THEN {"ZeroDivisionError"} \cup (IF num > 0 THEN {"accept"} ELSE {"reject"})
    ELSE IF num >= den THEN {"accept"}
    ELSE IF num = 0 THEN {"reject"}
    ELSE {"accept", "reject"}

---------------------------------------------------------------------------
(* Random draws on the lattice *)

\* the points of Coord^d
Points(d) == [1..d -> Coord]

\* np.random.normal(x, scale): any value
NormalDraws(x, scale) == Coord

\* np.random.uniform(low = x - scale / 2, high = x + scale / 2)
UniformDraws(x, scale) ==
    {y \in Coord : 2 * (y - x) <= scale /\ 2 * (x - y) <= scale}

\* Stretch: s = (1 + (a - 1) * U) ** 2 / a for U in [0, 1), so 1/a <= s < a
\* (s = 1 when a = 1); the draws that are halves: s = zn / 2
StretchDraws(a) ==
    {zn \in 1..(2 * a) : 2 <= zn * a /\ (zn < 2 * a \/ (a = 1 /\ zn = 2))}

\* candidate = S + s * (x - S), when it is a lattice point
StretchCandidate(Sp, zn, x) ==
    [q \in 1..Len(x) |-> Sp[q] + (zn * (x[q] - Sp[q])) \div 2]
OnLattice(Sp, zn, x) ==
    \A q \in 1..Len(x) :
        /\ (zn * (x[q] - Sp[q])) % 2 = 0
        /\ Sp[q] + (zn * (x[q] - Sp[q])) \div 2 \in Coord

RECURSIVE Power(_, _)
Power(b, e) == IF e = 0 THEN 1 ELSE b * Power(b, e - 1)

---------------------------------------------------------------------------
(* MCMC.__init__ and MCMC.run_mcmc *)

RunError(type, msg) == Exception(type, msg, "run_mcmc")

Dim == self.dimension.n
\* the rows of the raw buffer: np.zeros([nsamples * jump, dimension])
Rows == self.nsamples.n * self.jump.n
\* the MH and MMH loops: range(nsamples * jump - 1 + nburn)
Steps == self.nsamples.n * self.jump.n - 1 + self.nburn.n

\* __init__: the attributes are stored, init_mcmc validates them, and the
\* ensemble size is read off the seed
Construct ==
    /\ pc = "new"
    /\ \E cd \in CustomDist :
         LET r == init_mcmc(self, cd)
         IN  IF r.err # NoError
             THEN /\ self' = r.self
                  /\ pc' = "error"
                  /\ err' = r.err
             ELSE /\ self' = IF Is(r.self.algorithm, "Stretch")
                             THEN [r.self EXCEPT !.ensemble_size = PyInt(ArrayLen(r.self.seed))]
                             ELSE r.self
                  /\ pc' = "init"
                  /\ err' = err
    /\ UNCHANGED <<samples, i, j, candidate, current, accept, S, rngs, output, strata, kwargs, obj>>

\* run_mcmc up to the kernel's loop: the buffer is allocated and seeded
Begin ==
    /\ pc = "init"
    /\ LET buf == Zeros2(Rows, Dim)
           K == IF IsBound(self.ensemble_size) THEN self.ensemble_size.n ELSE 0
           head == IF K < Rows THEN K ELSE Rows
       IN  IF Eq(self.algorithm, "MH") \/ Eq(self.algorithm, "MMH")
           THEN IF CanAssign(self.seed, 1, Dim)
                THEN /\ samples' = SetRows(buf, 0, Assigned(self.seed, 1, Dim))
                     /\ pc' = IF Eq(self.algorithm, "MH") THEN "MH"
                              ELSE IF Eq(self.pdf_target_type, "marginal_pdf") THEN "MMH_marginal"
                              ELSE IF Eq(self.pdf_target_type, "joint_pdf") THEN "MMH_joint"
                              ELSE "return"
                     /\ i' = 0
                     /\ err' = err
                ELSE /\ samples' = buf
                     /\ pc' = "error"
                     /\ i' = i
                     /\ err' = RunError("ValueError", "could not broadcast input array")
           ELSE IF ~IsBound(self.ensemble_size)
           THEN /\ samples' = buf
                /\ pc' = "error"
                /\ i' = i
                /\ err' = RunError("AttributeError", "no attribute 'ensemble_size'")
           ELSE IF CanAssign(self.seed, head, Dim)
                THEN /\ samples' = SetRows(buf, 0, Assigned(self.seed, head, Dim))
                     /\ pc' = "Stretch"
                     /\ i' = K - 1
                     /\ err' = err
                ELSE /\ samples' = buf
                     /\ pc' = "error"
                     /\ i' = i
                     /\ err' = RunError("ValueError", "could not broadcast input array")
    /\ UNCHANGED <<self, j, candidate, current, accept, S, rngs, output, strata, kwargs, obj>>

\* the acceptance test of a candidate against the current point
AcceptTest(f, cand, cur) ==
    IF DensityIsArray(f, cand) THEN {"ValueError"}
    ELSE AcceptOutcomes(Density(f, cand, Dim), Density(f, cur, Dim))

\* the process-wide generators: numpy's global RandomState (np.random.*)
\* and the hidden instance of the standard library's module random
NumpyRandom == "np.random"
PythonRandom == "random"

AcceptError(u) ==
    IF u = "ZeroDivisionError" THEN RunError("ZeroDivisionError", "float division by zero")
    ELSE RunError("ValueError", "The truth value of an array is ambiguous")

IndexError == RunError("IndexError", "index is out of bounds for axis 0")

\* The candidates of one MH proposal.  pdf_proposal_type is a list after
\* init_mcmc: the first branch tests its first entry, the second compares
\* the list itself with 'Uniform'.  When neither branch is taken the local
\* `candidate` keeps what it held.
MHCandidates(x) ==
    IF self.pdf_proposal_type.items[1] = "Normal"
    THEN {Array1(y) : y \in {p \in Points(Dim) :
              \A q \in 1..Dim : p[q] \in NormalDraws(x[q], self.pdf_proposal_scale)}}
    ELSE IF Eq(self.pdf_proposal_type, "Uniform")
    THEN {Array1(y) : y \in {p \in Points(Dim) :
              \A q \in 1..Dim : p[q] \in UniformDraws(x[q], self.pdf_proposal_scale.items[q])}}
    ELSE {candidate}

\* one iteration of the MH loop
MHStep ==
    /\ pc = "MH"
    /\ i < Steps
    /\ \E c \in MHCandidates(At(samples, i)) :
         LET x == At(samples, i)
             f == self.pdf_target.items[1]
         IN  /\ candidate' = c
             /\ self' = IF self.pdf_proposal_type.items[1] = "Normal" /\ Dim # 1 /\ i = 0
                        THEN [self EXCEPT !.pdf_proposal_scale =
                                Array2([p \in 1..Dim |-> [q \in 1..Dim |->
                                    IF p = q THEN self.pdf_proposal_scale.items[p] ELSE 0]])]
                        ELSE self
             /\ IF ~IsBound(c)
                THEN /\ pc' = "error"
                     /\ err' = RunError("UnboundLocalError", "local variable 'candidate' referenced before assignment")
                     /\ UNCHANGED <<samples, i, accept, rngs>>
                ELSE \E u \in AcceptTest(f, Vec(c), x) :
                       /\ accept' = u
                       /\ rngs' = rngs \cup {NumpyRandom}
                       /\ IF u \notin {"accept", "reject"}
                          THEN /\ pc' = "error"
                               /\ err' = AcceptError(u)
                               /\ UNCHANGED <<samples, i>>
                          ELSE IF i + 1 >= Len(samples)
                          THEN /\ pc' = "error"
                               /\ err' = IndexError
                               /\ UNCHANGED <<samples, i>>
                          ELSE /\ samples' = [samples EXCEPT ![i + 2] = IF u = "accept" THEN Vec(c) ELSE x]
                               /\ i' = i + 1
                               /\ UNCHANGED <<pc, err>>
    /\ UNCHANGED <<j, current, S, output, strata, kwargs, obj>>

\* a proposal that is centred nowhere
UncentredDraws(k, xk) == Coord

\* the candidates of one MMH proposal for coordinate k (0-based) around xk
MMHDraws(k, xk) ==
    IF self.pdf_proposal_type.items[k + 1] = "Normal"
    THEN NormalDraws(xk, self.pdf_proposal_scale.items[k + 1])
    ELSE IF self.pdf_proposal_type.items[k + 1] = "Uniform"
    THEN UniformDraws(xk, self.pdf_proposal_scale.items[k + 1])
    ELSE {}

\* MMH, marginal_pdf: coordinate j of iteration i
MMHMarginalStep ==
    /\ pc = "MMH_marginal"
    /\ i < Steps
    /\ IF j >= Len(self.pdf_target.items)
       THEN /\ pc' = "error"
            /\ err' = RunError("IndexError", "list index out of range")
            /\ UNCHANGED <<samples, i, j, candidate, accept, rngs>>
       ELSE \E y \in MMHDraws(j, At(samples, i)[j + 1]) :
              LET xj == At(samples, i)[j + 1]
                  f == self.pdf_target.items[j + 1]
              IN  \E u \in AcceptTest(f, <<y>>, <<xj>>) :
                    /\ candidate' = Array1(<<y>>)
                    /\ accept' = u
                    /\ rngs' = rngs \cup {NumpyRandom}
                    /\ IF u \notin {"accept", "reject"}
                       THEN /\ pc' = "error"
                            /\ err' = AcceptError(u)
                            /\ UNCHANGED <<samples, i, j>>
                       ELSE IF i + 1 >= Len(samples)
                       THEN /\ pc' = "error"
                            /\ err' = IndexError
                            /\ UNCHANGED <<samples, i, j>>
                       ELSE /\ samples' = [samples EXCEPT ![i + 2][j + 1] = IF u = "accept" THEN y ELSE xj]
                            /\ j' = IF j + 1 < Dim THEN j + 1 ELSE 0
                            /\ i' = IF j + 1 < Dim THEN i ELSE i + 1
                            /\ UNCHANGED <<pc, err>>
    /\ UNCHANGED <<self, current, S, output, strata, kwargs, obj>>

\* MMH, joint_pdf: coordinate j of iteration i.  candidate and current are
\* copies of samples[i, :] when the iteration starts; the row is written
\* after the last coordinate.
MMHJointStep ==
    /\ pc = "MMH_joint"
    /\ i < Steps
    /\ \E y \in MMHDraws(j, At(samples, i)[j + 1]) :
         LET cand0 == IF j = 0 THEN At(samples, i) ELSE Vec(candidate)
             cur0 == IF j = 0 THEN At(samples, i) ELSE Vec(current)
             cand1 == [cand0 EXCEPT ![j + 1] = y]
             f == self.pdf_target.items[1]
         IN  \E u \in AcceptTest(f, cand1, cur0) :
               LET cur1 == IF u = "accept" THEN [cur0 EXCEPT ![j + 1] = y] ELSE cur0
                   cand2 == IF u = "reject" THEN [cand1 EXCEPT ![j + 1] = cur0[j + 1]] ELSE cand1
               IN  /\ accept' = u
                   /\ candidate' = Array1(cand2)
                   /\ rngs' = rngs \cup {NumpyRandom}
                   /\ IF u \notin {"accept", "reject"}
                      THEN /\ pc' = "error"
                           /\ err' = AcceptError(u)
                           /\ current' = Array1(cur0)
                           /\ UNCHANGED <<samples, i, j>>
                      ELSE IF j + 1 < Dim
                      THEN /\ current' = Array1(cur1)
                           /\ j' = j + 1
                           /\ UNCHANGED <<samples, i, pc, err>>
                      ELSE IF i + 1 >= Len(samples)
                      THEN /\ pc' = "error"
                           /\ err' = IndexError
                           /\ current' = Array1(cur1)
                           /\ UNCHANGED <<samples, i, j>>
                      ELSE /\ samples' = [samples EXCEPT ![i + 2] = cur1]
                           /\ current' = Array1(cur1)
                           /\ j' = 0
                           /\ i' = i + 1
                           /\ UNCHANGED <<pc, err>>
    /\ UNCHANGED <<self, S, output, strata, kwargs, obj>>

\* The generators one Stretch step draws from: random.choice for the
\* companion and random.random for the stretch factor, np.random.random
\* for the acceptance once p_accept has been computed.
StretchGenerators(u) ==
    IF u \in {"accept", "reject"} THEN {PythonRandom, NumpyRandom} ELSE {PythonRandom}

\* the raw rows of all the walkers at step k, the one to be updated included
WholeEnsemble(k) ==
    {r \in 0..(Len(samples) - 1) : k - self.ensemble_size.n + 1 <= r /\ r < k + 1}

\* the raw rows (0-based) of the complementary ensemble at step k:
\* samples[k - ensemble_size + 2 : k + 1, :]
ComplementaryEnsemble(k) ==
    {r \in 0..(Len(samples) - 1) : k - self.ensemble_size.n + 2 <= r /\ r < k + 1}

\* the row written last
NewestRow(k) == k

\* the walker updated at step k: samples[k - ensemble_size + 1, :]
Walker(k) == k - self.ensemble_size.n + 1

\* one iteration of the Stretch loop: range(ensemble_size - 1, nsamples * jump - 1)
StretchStep ==
    /\ pc = "Stretch"
    /\ i < Rows - 1
    /\ \E r \in ComplementaryEnsemble(i), zn \in StretchDraws(self.pdf_proposal_scale.items[1]) :
         LET Sp == At(samples, r)
             x == At(samples, Walker(i))
             f == self.pdf_target.items[1]
             c == StretchCandidate(Sp, zn, x)
             test == IF DensityIsArray(f, c) THEN {"ValueError"}
                     ELSE AcceptOutcomes(Power(zn, Dim - 1) * Density(f, c, Dim),
                                         Power(2, Dim - 1) * Density(f, x, Dim))
         IN  /\ OnLattice(Sp, zn, x)
             /\ \E u \in test :
                  /\ S' = PyInt(r)
                  /\ candidate' = Array1(c)
                  /\ accept' = u
                  /\ rngs' = rngs \cup StretchGenerators(u)
                  /\ IF u \notin {"accept", "reject"}
                     THEN /\ pc' = "error"
                          /\ err' = AcceptError(u)
                          /\ UNCHANGED <<samples, i>>
                     ELSE /\ samples' = [samples EXCEPT ![i + 2] = IF u = "accept" THEN c ELSE x]
                          /\ i' = i + 1
                          /\ UNCHANGED <<pc, err>>
    /\ UNCHANGED <<self, j, current, output, strata, kwargs, obj>>

\* buf[start : stop : step]
Thin(buf, start, stop, step) ==
    LET idx == {k \in 0..(Len(buf) - 1) : k >= start /\ k < stop /\ (k - start) % step = 0}
    IN  [m \in 1..Cardinality(idx) |-> At(buf, start + (m - 1) * step)]

\* The Stretch output: for i0 in range(jump * K - K, rows, jump * K) the
\* block samples[i0 : i0 + K] is copied to output[j0 : j0 + K].  Both
\* slices are cut to the rows there are; a block of one row is broadcast,
\* any other mismatch raises.
RECURSIVE Reassemble(_, _, _, _, _)
Reassemble(out, i0, j0, K, jump) ==
    IF i0 >= Len(samples) THEN [ok |-> TRUE, out |-> out]
    ELSE LET src == Slice(samples, i0, i0 + K)
             dst == Len(Slice(out, j0, j0 + K))
         IN  IF Len(src) = dst
             THEN Reassemble(SetRows(out, j0, src), i0 + jump * K, j0 + K, K, jump)
             ELSE IF Len(src) = 1
             THEN Reassemble(SetRows(out, j0, Repeat(src[1], dst)), i0 + jump * K, j0 + K, K, jump)
             ELSE [ok |-> FALSE, out |-> out]

\* the kernel's loop has run out
LoopDone ==
    \/ pc \in {"MH", "MMH_marginal", "MMH_joint"} /\ i >= Steps
    \/ pc = "Stretch" /\ i >= Rows - 1
    \/ pc = "return"

\* run_mcmc's return statement: the raw chain is thinned (MH, MMH) or
\* reassembled from ensemble blocks
Return ==
    /\ LoopDone
    /\ IF Is(self.algorithm, "MMH") \/ Is(self.algorithm, "MH")
       THEN /\ output' = Array2(Thin(samples, self.nburn.n,
                                     self.nsamples.n * self.jump.n + self.nburn.n, self.jump.n))
            /\ pc' = "done"
            /\ err' = err
       ELSE IF ~IsBound(self.ensemble_size)
       THEN /\ output' = output
            /\ pc' = "error"
            /\ err' = RunError("AttributeError", "no attribute 'ensemble_size'")
       ELSE LET K == self.ensemble_size.n
                r == Reassemble(Zeros2(self.nsamples.n, Dim), self.jump.n * K - K, 0, K, self.jump.n)
            IN  IF r.ok
                THEN /\ output' = Array2(r.out)
                     /\ pc' = "done"
                     /\ err' = err
                ELSE /\ output' = output
                     /\ pc' = "error"
                     /\ err' = RunError("ValueError", "could not broadcast input array")
    /\ UNCHANGED <<self, samples, i, j, candidate, current, accept, S, rngs, strata, kwargs, obj>>

---------------------------------------------------------------------------
(* The calls modelled: the keyword arguments of MCMC(...) *)

\* the object as __init__ stores the arguments, before init_mcmc
NewMCMC(dimension, pdf_proposal_type, pdf_proposal_scale, pdf_target_type, pdf_target, algorithm, jump, nsamples, seed, nburn) ==
    [pdf_proposal_type |-> pdf_proposal_type,
     pdf_proposal_scale |-> pdf_proposal_scale,
     pdf_target_type |-> pdf_target_type,
     pdf_target |-> pdf_target,
     pdf_target_params |-> None,
     algorithm |-> algorithm,
     jump |-> jump,
     nsamples |-> nsamples,
     dimension |-> dimension,
     seed |-> seed,
     nburn |-> nburn,
     ensemble_size |-> Unbound]

\* a seed point for MH and MMH: ones(n)
SeedPoint(n) == Array1(Repeat(1, n))
\* an ensemble of r distinct points of c coordinates: row k is (k-1, ..., k-1)
SeedEnsemble(r, c) == Array2([k \in 1..r |-> Repeat((k - 1) % (MaxCoord + 1), c)])

\* the raw buffer of a call has at most MaxCells cells
MaxCells == 9
DimOf(dimension) == IF IsNone(dimension) THEN 1 ELSE dimension.n
Cells(dimension, nsamples, jump) ==
    DimOf(dimension) * (IF IsNone(nsamples) THEN 1 ELSE nsamples.n)
                     * (IF IsNone(jump) THEN 1 ELSE jump.n)

\* dimension, nsamples, jump and nburn: omitted or given, nsamples among NS
Sizes(DS, NS, JS, BS) ==
    {z \in [dimension : {None} \cup {PyInt(d) : d \in DS},
            nsamples : {None} \cup {PyInt(n) : n \in NS},
            jump : {None} \cup {PyInt(k) : k \in JS},
            nburn : {None} \cup {PyInt(b) : b \in BS}] :
        Cells(z.dimension, z.nsamples, z.jump) <= MaxCells}

Algorithms == {"MH", "MMH", "Stretch"}

\* Calls with every option given in every way: omitted, valid, invalid, of
\* the wrong length, equal to a literal without being it.  jump and nburn
\* are omitted and nsamples is omitted, MaxRows or MaxRows + 1.
OptionSizes == Sizes(2..MaxDim, MaxRows..(MaxRows + 1), {}, {})
OptionCalls(z) ==
      {NewMCMC(z.dimension, pt, ps, tt, tg, al, z.jump, z.nsamples, sd, z.nburn) :
        pt \in {None, PyStr("Normal"), PyStr("Cauchy"), PyList(<<"Normal", "Uniform">>)},
        ps \in {None, PyList(<<2, 2>>)},
        tt \in {None, PyStr("joint_pdf"), PyStr("marginal_pdf"), PyStrDyn("marginal_pdf"),
                PyStr("conditional_pdf")},
        tg \in {None, PyStr("Normal"), Function("user")}
               \cup {PyList(Repeat("user", n)) : n \in 2..MaxDim},
        al \in {None, PyStr("Gibbs")} \cup {PyStr(a) : a \in Algorithms}
               \cup {PyStrDyn(a) : a \in Algorithms},
        sd \in {None} \cup {SeedPoint(n) : n \in 1..MaxDim}
               \cup {SeedEnsemble(r, DimOf(z.dimension)) : r \in 2..MaxRows}}

\* Calls of the single-chain kernels, of every size up to MaxN, with the
\* options omitted or given as documented.
ChainCalls ==
    {NewMCMC(z.dimension, pt, ps, tt, tg, al, z.jump, z.nsamples, sd, z.nburn) :
        z \in Sizes({2}, 1..MaxN, 2..MaxJump, 1..MaxBurn),
        pt \in {None, PyStr("Uniform"), PyStr("Normal")},
        ps \in {None, PyInt(2)},
        tt \in {None, PyStr("joint_pdf"), PyStr("marginal_pdf")},
        tg \in {None, Function("user")},
        al \in {PyStr("MH"), PyStr("MMH")},
        sd \in {None, SeedPoint(1), SeedPoint(2)}}

\* Calls of the ensemble kernel, of every size from the ensemble's up to
\* MaxEnsembleN, with an ensemble of MaxRows points as the seed.
EnsembleSizes == Sizes({2}, MaxRows..MaxEnsembleN, 2..MaxJump, {})
EnsembleCalls(z) ==
      {NewMCMC(z.dimension, None, ps, None, tg, PyStr("Stretch"), z.jump, z.nsamples, sd, z.nburn) :
        ps \in {None, PyInt(2)},
        tg \in {None, Function("user")},
        sd \in {None, SeedEnsemble(MaxRows, DimOf(z.dimension))}}

\* an ensemble of r points of c coordinates on either side of a gap: row k
\* is (0, ..., 0) or (2, ..., 2)
SeedGapped(r, c) == Array2([k \in 1..r |-> Repeat(2 * ((k - 1) % 2), c)])

\* Calls of the three kernels that run: a chain of two or three states in
\* two dimensions, an ensemble of three walkers in one dimension for four
\* or five rows; jump and nburn are omitted.
KernelCalls ==
    {NewMCMC(PyInt(2), pt, PyInt(2), tt, tg, al, None, PyInt(n), sd, None) :
        pt \in {PyStr("Uniform"), PyStr("Normal")},
        tt \in {PyStr("joint_pdf"), PyStr("marginal_pdf")},
        tg \in {None, Function("user"), PyList(<<"user", "user">>)},
        al \in {PyStr("MH"), PyStr("MMH")},
        n \in {2, 3},
        sd \in {None, SeedPoint(2)}}
      \cup
    {NewMCMC(None, None, PyInt(2), None, tg, PyStr("Stretch"), None, PyInt(n), sd, None) :
        tg \in {None, Function("user"), Function("gapped")},
        n \in {4, 5},
        sd \in {SeedEnsemble(3, 1), SeedGapped(3, 1)}}

NoStrata == [pc |-> "idle"]
\* no MCS, LHS, PSS or STS call is in progress
NoObject == [cls |-> "none", pc |-> "idle"]

\* before the call: nothing has run
NotStarted ==
    /\ kwargs = self
    /\ pc = "new"
    /\ err = NoError
    /\ samples = <<>>
    /\ i = 0
    /\ j = 0
    /\ candidate = Unbound
    /\ current = Unbound
    /\ accept = "unbound"
    /\ S = Unbound
    /\ rngs = {}
    /\ output = Unbound
    /\ strata = NoStrata
    /\ obj = NoObject

Init ==
    /\ \/ self \in ChainCalls
       \/ \E z \in EnsembleSizes : self \in EnsembleCalls(z)
    /\ NotStarted

InitOptions ==
    /\ \E z \in OptionSizes : self \in OptionCalls(z)
    /\ NotStarted

InitKernel ==
    /\ self \in KernelCalls
    /\ NotStarted

Next ==
    \/ Construct
    \/ Begin
    \/ MHStep
    \/ MMHMarginalStep
    \/ MMHJointStep
    \/ StretchStep
    \/ Return

Spec == Init /\ [][Next]_vars
SpecOptions == InitOptions /\ [][Next]_vars
SpecKernel == InitKernel /\ [][Next]_vars

---------------------------------------------------------------------------
(* Strata: the stratification of the unit hypercube.  np.divide is exact   *)
(* division here: a quotient is a fraction in lowest terms.                *)

MaxStrataDim == 3    \* most dimensions of an nstrata vector
MaxStrata == 3       \* most strata in one dimension

RECURSIVE Gcd(_, _)
Gcd(a, b) == IF b = 0 THEN a ELSE Gcd(b, a % b)

\* num / den, den > 0
Frac(num, den) ==
    LET g == Gcd(IF num < 0 THEN -num ELSE num, den)
    IN  [num |-> num \div g, den |-> den \div g]
FracMul(x, y) == Frac(x.num * y.num, x.den * y.den)
\* the sum, over the least common denominator
FracAdd(x, y) ==
    LET L == (x.den \div Gcd(x.den, y.den)) * y.den
    IN  Frac(x.num * (L \div x.den) + y.num * (L \div y.den), L)
FracSub(x, y) == FracAdd(x, [num |-> -y.num, den |-> y.den])
\* x < y
FracLess(x, y) ==
    LET L == (x.den \div Gcd(x.den, y.den)) * y.den
    IN  x.num * (L \div x.den) < y.num * (L \div y.den)
FracLeq(x, y) == ~FracLess(y, x)

RECURSIVE Prod(_)
\* np.prod of a vector of integers
Prod(q) == IF q = <<>> THEN 1 ELSE q[1] * Prod(Tail(q))

RECURSIVE FracProd(_)
\* np.prod of a row of quotients
FracProd(q) == IF q = <<>> THEN Frac(1, 1) ELSE FracMul(q[1], FracProd(Tail(q)))

RECURSIVE FracSumRange(_, _, _)
\* the sum of q[lo .. hi], by halves
FracSumRange(q, lo, hi) ==
    IF lo = hi THEN q[lo]
    ELSE LET mid == (lo + hi) \div 2
         IN  FracAdd(FracSumRange(q, lo, mid), FracSumRange(q, mid + 1, hi))

\* np.sum of a vector of quotients
FracSum(q) == IF q = <<>> THEN Frac(0, 1) ELSE FracSumRange(q, 1, Len(q))

RECURSIVE Tile(_, _)
\* lst * n: the list n times over
Tile(lst, n) == IF n <= 0 THEN <<>> ELSE lst \o Tile(lst, n - 1)

RECURSIVE Lvl(_, _, _)
\* fullfact's inner loop: for j in range(from, n): lvl += [j] * level_repeat
Lvl(from, n, level_repeat) ==
    IF from >= n THEN <<>>
    ELSE Repeat(from, level_repeat) \o Lvl(from + 1, n, level_repeat)

\* a column in which the levels are never repeated in place: every factor
\* cycles as fast as the first
RngCycling(n, level_repeat, range_repeat) ==
    Tile(Lvl(0, n, 1), range_repeat * level_repeat)

\* a column in which every level comes once, in one block
RngSlowest(n, level_repeat, range_repeat) == Lvl(0, n, level_repeat * range_repeat)

\* the column fullfact builds for a factor of n levels: rng = lvl * range_repeat
Rng(n, level_repeat, range_repeat) == Tile(Lvl(0, n, level_repeat), range_repeat)

\* Strata(nstrata = ...), before __init__'s body runs
NewStrata(nstrata) ==
    [pc |-> "new", nstrata |-> nstrata, input_file |-> None,
     origins |-> None, widths |-> None, weights |-> None,
     ff |-> <<>>, level_repeat |-> 0, range_repeat |-> 0, i |-> 0, err |-> NoError]

\* Strata(input_file = ...) and Strata(origins = ..., widths = ...)
NewStrataFrom(input_file, origins, widths) ==
    [pc |-> "new", nstrata |-> None, input_file |-> input_file,
     origins |-> origins, widths |-> widths, weights |-> None,
     ff |-> <<>>, level_repeat |-> 0, range_repeat |-> 0, i |-> 0, err |-> NoError]

\* a layout file: the rows of numbers written in it
File(rows) == [t |-> "file", rows |-> rows]

\* np.loadtxt(input_file): axes of length one are squeezed, so a file of one
\* row or of one column is read as a one-dimensional array
Loadtxt(f) ==
    IF Len(f.rows) = 1 THEN Array1(f.rows[1])
    ELSE IF \A k \in 1..Len(f.rows) : Len(f.rows[k]) = 1
    THEN Array1([k \in 1..Len(f.rows) |-> f.rows[k][1]])
    ELSE Array2(f.rows)

\* m[:, a:b] with 0-based a and b
Columns(m, a, b) == [k \in 1..Len(m) |-> [q \in 1..(b - a) |-> m[k][a + q]]]

\* np.prod(widths, axis = 1)
RowProducts(widths) == [k \in 1..Len(widths) |-> FracProd(widths[k])]

\* the tolerance of the space-filling check, 1e-5
Tolerance == Frac(1, 100000)

StrataError(type, msg) == Exception(type, msg, "Strata.__init__")

StrataWith(up) == [k \in DOMAIN strata |-> IF k \in DOMAIN up THEN up[k] ELSE strata[k]]

\* __init__: a layout that is read or given is checked and weighed at once;
\* with nstrata, __init__ up to the call of fullfact and fullfact up to its
\* loop
StrataConstruct ==
    /\ strata.pc = "new"
    /\ IF IsNone(strata.nstrata)
       THEN IF IsNone(strata.input_file)
            THEN IF IsNone(strata.widths) \/ IsNone(strata.origins)
                 THEN strata' = StrataWith([pc |-> "error",
                         err |-> StrataError("SystemExit", "The strata are not fully defined.")])
                 ELSE strata' = StrataWith([pc |-> "done",
                         weights |-> Array1(RowProducts(strata.widths.a))])
            ELSE LET array_tmp == Loadtxt(strata.input_file)
                 IN  IF array_tmp.nd = 1
                     THEN strata' = StrataWith([pc |-> "error",
                              err |-> StrataError("IndexError", "too many indices for array")])
                     ELSE LET c == Shape(array_tmp)[2]
                              origins == Columns(array_tmp.a, 0, c \div 2)
                              widths == Columns(array_tmp.a, c \div 2, c)
                              space_fill == FracSum(RowProducts(widths))
                              slack == FracSub(Frac(1, 1), space_fill)
                          IN  IF FracLess(Tolerance, slack)
                              THEN strata' = StrataWith([pc |-> "error",
                                       origins |-> Array2(origins), widths |-> Array2(widths),
                                       err |-> StrataError("SystemExit", "The stratum design is not space-filling.")])
                              ELSE IF FracLess(slack, FracSub(Frac(0, 1), Tolerance))
                              THEN strata' = StrataWith([pc |-> "error",
                                       origins |-> Array2(origins), widths |-> Array2(widths),
                                       err |-> StrataError("SystemExit", "The stratum design is over-filling.")])
                              ELSE strata' = StrataWith([pc |-> "done",
                                       origins |-> Array2(origins), widths |-> Array2(widths),
                                       weights |-> Array1(RowProducts(widths))])
       ELSE LET levels == strata.nstrata.items
            IN  strata' = StrataWith([pc |-> "fullfact",
                    ff |-> Zeros2(Prod(levels), Len(levels)),
                    level_repeat |-> 1,
                    range_repeat |-> Prod(levels),
                    i |-> 0])
    /\ UNCHANGED <<kwargs, self, pc, err, samples, i, j, candidate, current, accept, S, rngs, output, obj>>

\* one iteration of fullfact's loop over the factors: ff[:, i] = rng
FullfactColumn ==
    /\ strata.pc = "fullfact"
    /\ strata.i < Len(strata.nstrata.items)
    /\ LET levels == strata.nstrata.items
           n == levels[strata.i + 1]
           range_repeat == strata.range_repeat \div n
           rng == Rng(n, strata.level_repeat, range_repeat)
       IN  IF Len(rng) # Len(strata.ff)
           THEN strata' = StrataWith([pc |-> "error",
                    err |-> Exception("ValueError", "could not broadcast input array", "fullfact")])
           ELSE strata' = StrataWith([
                    ff |-> [k \in 1..Len(strata.ff) |-> [strata.ff[k] EXCEPT ![strata.i + 1] = rng[k]]],
                    range_repeat |-> range_repeat,
                    level_repeat |-> strata.level_repeat * n,
                    i |-> strata.i + 1])
    /\ UNCHANGED <<kwargs, self, pc, err, samples, i, j, candidate, current, accept, S, rngs, output, obj>>

\* fullfact returns; origins, widths and weights are computed
StrataFinish ==
    /\ strata.pc = "fullfact"
    /\ strata.i >= Len(strata.nstrata.items)
    /\ LET levels == strata.nstrata.items
           origins == [k \in 1..Len(strata.ff) |->
                         [q \in 1..Len(levels) |-> Frac(strata.ff[k][q], levels[q])]]
           widths == [k \in 1..Len(strata.ff) |->
                         [q \in 1..Len(levels) |-> Frac(1, levels[q])]]
       IN  strata' = StrataWith([pc |-> "done",
                origins |-> Array2(origins),
                widths |-> Array2(widths),
                weights |-> Array1(RowProducts(widths))])
    /\ UNCHANGED <<kwargs, self, pc, err, samples, i, j, candidate, current, accept, S, rngs, output, obj>>

MaxFileRows == 3     \* most cells of a layout that is read or given

\* the cells of a one-dimensional layout, as the pair (origin, width): the
\* widths are 1/2, 1, and 1/2 less and more 6e-6
LayoutCells ==
    {<<o, w>> : o \in {Frac(0, 1), Frac(1, 2)},
                w \in {Frac(1, 2), Frac(1, 1), Frac(499994, 1000000), Frac(500006, 1000000)}}

\* the layouts of one to MaxFileRows cells
Layouts == UNION {[1..n -> LayoutCells] : n \in 1..MaxFileRows}

\* the constructor calls: nstrata, a layout file, origins and widths, nothing
StrataCalls ==
    {NewStrata(None)}
      \cup {NewStrata(PyList(q)) : q \in UNION {[1..n -> 1..MaxStrata] : n \in 1..MaxStrataDim}}
      \cup {NewStrataFrom(File(rows), None, None) : rows \in Layouts}
      \cup {NewStrataFrom(None, Array2(Columns(rows, 0, 1)), Array2(Columns(rows, 1, 2))) :
               rows \in {r \in Layouts : \A k \in 1..Len(r) : r[k][2].den <= 2}}

\* no MCMC call is in progress
NoMCMC ==
    /\ kwargs = None
    /\ self = None
    /\ pc = "idle"
    /\ err = NoError
    /\ samples = <<>>
    /\ i = 0
    /\ j = 0
    /\ candidate = Unbound
    /\ current = Unbound
    /\ accept = "unbound"
    /\ S = Unbound
    /\ rngs = {}
    /\ output = Unbound

InitStrata ==
    /\ strata \in StrataCalls
    /\ NoMCMC
    /\ obj = NoObject

NextStrata ==
    \/ StrataConstruct
    \/ FullfactColumn
    \/ StrataFinish

SpecStrata == InitStrata /\ [][NextStrata]_vars

---------------------------------------------------------------------------
(* Properties of MCMC *)

\* the call has passed init_mcmc
Validated == pc # "new" /\ ~(pc = "error" /\ err.where \in {"init_mcmc", "pdf"})

\* the call asked for MH or MMH
SingleChain == Is(kwargs.algorithm, "MH") \/ Is(kwargs.algorithm, "MMH")

\* C1: every call that passes validation returns a chain of exactly nsamples
\* rows and dimension columns.  A run does not end in an exception of
\* run_mcmc (a division by a zero density of the caller's own target apart),
\* and the returned array has that shape.
C1_ReturnsChain ==
    Validated =>
        /\ pc = "error" => err.type = "ZeroDivisionError"
        /\ pc = "done" =>
             /\ Len(output.a) = self.nsamples.n
             /\ \A k \in 1..Len(output.a) : Len(output.a[k]) = Dim

\* C2: for MH and MMH the raw chain holds nsamples * jump + nburn states, no
\* state is written outside the buffer, and output row k is the raw state
\* at step nburn + k * jump.
C2_RawChain ==
    (Validated /\ SingleChain) =>
        /\ pc # "init" => Len(samples) = self.nsamples.n * self.jump.n + self.nburn.n
        /\ err # IndexError
        /\ pc = "done" =>
             /\ Len(output.a) = self.nsamples.n
             /\ \A k \in 0..(self.nsamples.n - 1) :
                  /\ self.nburn.n + k * self.jump.n < Len(samples)
                  /\ At(output.a, k) = At(samples, self.nburn.n + k * self.jump.n)

\* C3: in MH with proposal type Uniform, given or by default, every
\* transition draws a candidate with each coordinate within half the scale
\* of the current state's, and the accept/reject step is made on it.
C3_UniformProposal ==
    (Validated /\ Is(kwargs.algorithm, "MH")
       /\ (IsNone(kwargs.pdf_proposal_type) \/ Is(kwargs.pdf_proposal_type, "Uniform"))) =>
        /\ err.type # "UnboundLocalError"
        /\ (pc = "MH" /\ i > 0) =>
             /\ IsBound(candidate)
             /\ accept \in {"accept", "reject"}
             /\ \A q \in 1..Dim :
                  Vec(candidate)[q] \in UniformDraws(At(samples, i - 1)[q],
                                                      self.pdf_proposal_scale.items[q])
             /\ At(samples, i) = IF accept = "accept" THEN Vec(candidate)
                                 ELSE At(samples, i - 1)

\* every option but dimension and nsamples is omitted
OnlySizesGiven ==
    /\ IsNone(kwargs.pdf_proposal_type)
    /\ IsNone(kwargs.pdf_proposal_scale)
    /\ IsNone(kwargs.pdf_target)
    /\ IsNone(kwargs.seed)
    /\ IsNone(kwargs.jump)
    /\ IsNone(kwargs.nburn)

\* C4: a call that omits the algorithm and the target type, nsamples being
\* given, passes validation with algorithm MMH and target type marginal_pdf.
C4_DefaultAlgorithm ==
    (pc # "new" /\ IsNone(kwargs.algorithm) /\ IsNone(kwargs.pdf_target_type)
       /\ ~IsNone(kwargs.nsamples) /\ OnlySizesGiven) =>
        /\ Validated
        /\ Eq(self.algorithm, "MMH")
        /\ Eq(self.pdf_target_type, "marginal_pdf")

\* C5: an MH call that omits pdf_target_type, everything else being valid,
\* passes validation and samples with its single target density.
C5_MHIgnoresTargetType ==
    (pc # "new" /\ Is(kwargs.algorithm, "MH") /\ IsNone(kwargs.pdf_target_type)
       /\ ~IsNone(kwargs.nsamples) /\ IsNone(kwargs.seed)) =>
        /\ Validated
        /\ pc \notin {"init", "error"} => Len(self.pdf_target.items) = 1

\* C6: with algorithm Stretch a call that omits the seed fails with a
\* configuration error during validation, whatever the dimension, and the
\* zero vector is never used as an ensemble.
C6_StretchSeedMandatory ==
    (pc # "new" /\ Is(kwargs.algorithm, "Stretch") /\ IsNone(kwargs.seed)) =>
        /\ pc = "error"
        /\ ConfigurationError(err)

\* C7: with algorithm Stretch a seed of fewer than 3 rows is rejected with a
\* configuration error before any chain state is written, and for an
\* accepted seed the ensemble size is the seed's row count throughout.
C7_EnsembleSize ==
    (pc # "new" /\ Eq(kwargs.algorithm, "Stretch") /\ ~IsNone(kwargs.seed)) =>
        /\ ArrayLen(kwargs.seed) < 3 =>
             /\ pc = "error"
             /\ ConfigurationError(err)
             /\ samples = <<>>
        /\ Validated =>
             /\ IsBound(self.ensemble_size)
             /\ self.ensemble_size.n = ArrayLen(kwargs.seed)

\* C8: after validation the target list has dimension entries when the
\* target type is marginal_pdf and one entry when it is joint_pdf, and
\* sampling never indexes a target that is missing.  Stated for MMH, the
\* kernel that reads the target type.
C8_TargetList ==
    (Validated /\ Is(kwargs.algorithm, "MMH")) =>
        /\ Eq(self.pdf_target_type, "marginal_pdf") => Len(self.pdf_target.items) = Dim
        /\ Eq(self.pdf_target_type, "joint_pdf") => Len(self.pdf_target.items) = 1
        /\ err.msg # "list index out of range"

\* C9: for Stretch with ensemble size K the output is made of whole K-row
\* blocks of the raw history, output row m * K + r being raw row
\* (m * jump + jump - 1) * K + r; every output row is a copy of a raw row
\* and the copy never fails on a mismatch of block sizes.
C9_EnsembleBlocks ==
    (Validated /\ Is(kwargs.algorithm, "Stretch")) =>
        /\ err.msg # "could not broadcast input array"
        /\ pc = "done" =>
             /\ Len(output.a) = self.nsamples.n
             /\ \A k \in 0..(self.nsamples.n - 1) :
                  LET K == self.ensemble_size.n
                      m == k \div K
                      r == k % K
                      raw == (m * self.jump.n + self.jump.n - 1) * K + r
                  IN  /\ raw < Len(samples)
                      /\ At(output.a, k) = At(samples, raw)

---------------------------------------------------------------------------
(* Properties of Strata *)

\* every combination of the levels 0 .. levels[q] - 1
LevelTuples(levels) ==
    {p \in [1..Len(levels) -> 0..(MaxStrata - 1)] : \A q \in 1..Len(levels) : p[q] < levels[q]}

\* C10: Strata built from nstrata has prod(nstrata) cells, whose level
\* tuples are every combination of levels exactly once, so that no two cells
\* share an origin; every cell is 1 / nstrata[q] wide in dimension q and the
\* hypervolumes sum to 1; nstrata = [2, 2] gives the origins (0, 0),
\* (0, 1/2), (1/2, 0) and (1/2, 1/2).
C10_RectilinearStrata ==
    (strata.pc = "done" /\ ~IsNone(strata.nstrata)) =>
        LET levels == strata.nstrata.items
            N == Prod(levels)
            O == strata.origins.a
            W == strata.widths.a
        IN  /\ Len(O) = N
            /\ Len(W) = N
            /\ Len(Vec(strata.weights)) = N
            /\ {strata.ff[k] : k \in 1..N} = LevelTuples(levels)
            /\ \A k \in 1..N : \A q \in 1..Len(levels) :
                 /\ O[k][q] = Frac(strata.ff[k][q], levels[q])
                 /\ W[k][q] = Frac(1, levels[q])
            /\ \A k1, k2 \in 1..N : k1 # k2 => O[k1] # O[k2]
            /\ FracSum(Vec(strata.weights)) = Frac(1, 1)
            /\ levels = <<2, 2>> =>
                 {O[k] : k \in 1..N} =
                   {<<Frac(0, 1), Frac(0, 1)>>, <<Frac(0, 1), Frac(1, 2)>>,
                    <<Frac(1, 2), Frac(0, 1)>>, <<Frac(1, 2), Frac(1, 2)>>}

\* a stratification of two or more dimensions with more than one stratum
\* in each has been built
C10_Built ==
    /\ strata.pc = "done"
    /\ ~IsNone(strata.nstrata)
    /\ Len(strata.nstrata.items) >= 2
    /\ \A q \in 1..Len(strata.nstrata.items) : strata.nstrata.items[q] >= 2

\* cell k lies in the unit hypercube and has positive widths
InUnitCube(O, W, k) ==
    \A q \in 1..Len(O[k]) :
        /\ FracLeq(Frac(0, 1), O[k][q])
        /\ FracLess(Frac(0, 1), W[k][q])
        /\ FracLeq(FracAdd(O[k][q], W[k][q]), Frac(1, 1))

\* cells k1 and k2 do not overlap: some dimension separates them
Apart(O, W, k1, k2) ==
    \E q \in 1..Len(O[k1]) :
        \/ FracLeq(FracAdd(O[k1][q], W[k1][q]), O[k2][q])
        \/ FracLeq(FracAdd(O[k2][q], W[k2][q]), O[k1][q])

\* x is 1 within the tolerance
NearOne(x) ==
    /\ FracLeq(FracSub(Frac(1, 1), x), Tolerance)
    /\ FracLeq(FracSub(x, Frac(1, 1)), Tolerance)

\* C11: every Strata that construction returns, from nstrata, from a layout
\* file or from origins and widths, is a set of cells of the unit hypercube
\* that do not overlap and whose hypervolumes sum to 1 within 1e-5, so that
\* they tile it without gaps.
C11_Tiles ==
    strata.pc = "done" =>
        LET O == strata.origins.a
            W == strata.widths.a
        IN  /\ Len(O) = Len(W)
            /\ \A k \in 1..Len(O) : InUnitCube(O, W, k)
            /\ \A k1, k2 \in 1..Len(O) : k1 # k2 => Apart(O, W, k1, k2)
            /\ NearOne(FracSum(RowProducts(W)))

\* the sum of the hypervolumes of the cells written in a layout file
FileVolume(f) ==
    LET c == Len(f.rows[1])
    IN  FracSum(RowProducts(Columns(f.rows, c \div 2, c)))

\* C12: a layout read from a file is accepted exactly when the sum S of its
\* hypervolumes is 1 within 1e-5; S below fails with the not space-filling
\* error, S above with the over-filling error, and a failure computes no
\* weights and returns no Strata.
C12_SpaceFilling ==
    (strata.pc \notin {"idle", "new"} /\ IsNone(strata.nstrata) /\ ~IsNone(strata.input_file)) =>
        LET vol == FileVolume(strata.input_file)
        IN  /\ NearOne(vol) <=> strata.pc = "done"
            /\ FracLess(Tolerance, FracSub(Frac(1, 1), vol)) =>
                 strata.err = StrataError("SystemExit", "The stratum design is not space-filling.")
            /\ FracLess(Tolerance, FracSub(vol, Frac(1, 1))) =>
                 strata.err = StrataError("SystemExit", "The stratum design is over-filling.")
            /\ strata.pc = "error" => IsNone(strata.weights)

\* C13: the rows of origins are in the order in which the last dimension
\* varies fastest and dimension 0 slowest; for nstrata = [2, 2] they are
\* (0, 0), (0, 1/2), (1/2, 0), (1/2, 1/2).
C13_RowOrder ==
    (strata.pc = "done" /\ ~IsNone(strata.nstrata)) =>
        LET O == strata.origins.a
        IN  /\ \A k \in 1..(Len(O) - 1) : FracLeq(O[k][1], O[k + 1][1])
            /\ strata.nstrata.items = <<2, 2>> =>
                 O = << <<Frac(0, 1), Frac(0, 1)>>, <<Frac(0, 1), Frac(1, 2)>>,
                        <<Frac(1, 2), Frac(0, 1)>>, <<Frac(1, 2), Frac(1, 2)>> >>

---------------------------------------------------------------------------
(* The designs of experiments: MCS, LHS, PSS and STS.  obj holds the        *)
(* object's attributes and the locals of its run method: samples are the    *)
(* points of the unit hypercube, samples_u_to_x their transforms; the       *)
(* constructor returns them as samplesU01 and samples when pc is "done".    *)

\* the object as __init__ stores the arguments; given keeps the arguments
NewObject(cls, dimension, dist_type, dist_params, nsamples, options) ==
    [cls |-> cls, pc |-> "new", err |-> NoError,
     dimension |-> dimension, dist_type |-> dist_type, dist_params |-> dist_params,
     nsamples |-> nsamples,
     lhs_criterion |-> options.lhs_criterion, lhs_metric |-> options.lhs_metric,
     lhs_iter |-> options.lhs_iter,
     pss_design |-> options.pss_design, pss_strata |-> options.pss_strata,
     sts_design |-> options.sts_design, input_file |-> options.input_file,
     icdf |-> Unbound, samples |-> Unbound, samples_u_to_x |-> Unbound, col |-> 0,
     given |-> [dimension |-> dimension, dist_type |-> dist_type, dist_params |-> dist_params]]

\* the options a class does not take
NoOptions ==
    [lhs_criterion |-> None, lhs_metric |-> None, lhs_iter |-> None,
     pss_design |-> None, pss_strata |-> None, sts_design |-> None, input_file |-> None]

\* raise: the call ends with the exception
Failed(o, type, msg, where) == [o EXCEPT !.pc = "error", !.err = Exception(type, msg, where)]

\* the names init_mcs and init_pss accept
DistributionNames == {"Uniform", "Normal", "Lognormal", "Weibull", "Beta", "Exponential", "Gamma"}

\* The lists of names and of parameters are brought to the dimension: a
\* list of one entry is repeated; otherwise only lists of different lengths
\* are refused.
BroadcastDistLists(o, where) ==
    LET nt == Len(o.dist_type.items)
        np == Len(o.dist_params.items)
        d  == o.dimension.n
    IN  IF nt = 1 /\ np = d
        THEN [o EXCEPT !.dist_type = PyList(Tile(o.dist_type.items, d))]
        ELSE IF np = 1 /\ nt = d
        THEN [o EXCEPT !.dist_params = PyList(Tile(o.dist_params.items, d))]
        ELSE IF np = 1 /\ nt = 1
        THEN [o EXCEPT !.dist_type = PyList(Tile(o.dist_type.items, d)),
                       !.dist_params = PyList(Tile(o.dist_params.items, d))]
        ELSE IF nt # np
        THEN Failed(o, "NotImplementedError", "Incompatible dimensions", where)
        ELSE o

\* the dimension check of init_mcs and init_lhs: without a dimension the two
\* lists must be equally long and give it
CheckDistDimension(o, where) ==
    IF IsNone(o.dimension)
    THEN IF Len(o.dist_type.items) # Len(o.dist_params.items)
         THEN Failed(o, "NotImplementedError", "Incompatible dimensions.", where)
         ELSE [o EXCEPT !.dimension = PyInt(Len(o.dist_type.items))]
    ELSE BroadcastDistLists(o, where)

\* the points np.random.rand and np.random.uniform draw, as fractions of the
\* interval: its origin and its middle
UnitDraws == {Frac(0, 1), Frac(1, 2)}

\* the n x d arrays np.random.rand(n, d) can give
Rand(n, d) == [1..n -> [1..d -> UnitDraws]]

\* the number of positional parameters of inv_cdf(dist)
InvCdfParameters == 1

\* MCS.init_mcs
init_mcs(o) ==
    IF IsNone(o.nsamples)
    THEN Failed(o, "NotImplementedError", "Number of samples not defined.", "init_mcs")
    ELSE IF IsNone(o.dist_type)
    THEN Failed(o, "NotImplementedError", "Distributions not defined.", "init_mcs")
    ELSE IF \E k \in 1..Len(o.dist_type.items) : o.dist_type.items[k].s \notin DistributionNames
    THEN Failed(o, "NotImplementedError", "Unrecognized type of distribution.", "init_mcs")
    ELSE IF IsNone(o.dist_params)
    THEN Failed(o, "NotImplementedError", "Distribution parameters not defined.", "init_mcs")
    ELSE CheckDistDimension(o, "init_mcs")

\* MCS.__init__ up to run_mcs
MCSConstruct ==
    /\ obj.cls = "MCS"
    /\ obj.pc = "new"
    /\ LET o == init_mcs(obj)
       IN  obj' = IF o.pc = "error" THEN o ELSE [o EXCEPT !.pc = "run_mcs"]
    /\ UNCHANGED <<mcmcVars, kwargs, strata>>

\* run_mcs: the points are drawn, and inv_cdf, which takes one argument, is
\* called with three
MCSRun ==
    /\ obj.cls = "MCS"
    /\ obj.pc = "run_mcs"
    /\ \E u \in Rand(obj.nsamples.n, obj.dimension.n) :
         obj' = IF InvCdfParameters # 3
                THEN Failed([obj EXCEPT !.samples = Array2(u)], "TypeError",
                            "inv_cdf() takes 1 positional argument but 3 were given", "run_mcs")
                ELSE [obj EXCEPT !.samples = Array2(u), !.pc = "done"]
    /\ UNCHANGED <<mcmcVars, kwargs, strata>>

---------------------------------------------------------------------------
(* inv_cdf *)

\* inv_cdf applied to a str (run_lhs passes dist_type[j]): the loop indexes
\* the name's characters, none of which is a built-in name
InvCdfOfStrError(cd) ==
    CASE cd = "absent" -> Exception("NotImplementedError", "Unidentified pdf_type", "inv_cdf")
      [] cd = "undefined" -> Exception("AttributeError", "custom_dist has no such attribute", "inv_cdf")
      [] OTHER -> Exception("TypeError", "'str' object does not support item assignment", "inv_cdf")

---------------------------------------------------------------------------
(* LHS *)

LHSCriteria == {"random", "centered", "maximin", "correlate"}

LHSMetrics ==
    {"braycurtis", "canberra", "chebyshev", "cityblock", "correlation", "cosine", "dice",
     "euclidean", "hamming", "jaccard", "kulsinski", "mahalanobis", "matching", "minkowski",
     "rogerstanimoto", "russellrao", "seuclidean", "sokalmichener", "sokalsneath", "sqeuclidean"}

\* the criterion, metric and iteration checks of init_lhs
CheckLHSOptions(o) ==
    IF ~IsNone(o.lhs_criterion) /\ o.lhs_criterion.s \notin LHSCriteria
    THEN Failed(o, "NotImplementedError", "Supported lhs criteria", "init_lhs")
    ELSE IF ~IsNone(o.lhs_metric) /\ o.lhs_metric.s \notin LHSMetrics
    THEN Failed(o, "NotImplementedError", "Supported lhs distances", "init_lhs")
    ELSE [o EXCEPT !.lhs_criterion = IF IsNone(@) THEN PyStr("random") ELSE @,
                   !.lhs_metric = IF IsNone(@) THEN PyStr("euclidean") ELSE @,
                   !.lhs_iter = IF IsNone(@) \/ @.n = 0 THEN PyInt(1000) ELSE @]

\* LHS.init_lhs
init_lhs(o) ==
    IF IsNone(o.nsamples)
    THEN Failed(o, "NotImplementedError", "Number of samples not defined.", "init_lhs")
    ELSE IF IsNone(o.dist_type)
    THEN Failed(o, "NotImplementedError", "Distributions not defined.", "init_lhs")
    ELSE IF IsNone(o.dist_params)
    THEN Failed(o, "NotImplementedError", "Distribution parameters not defined.", "init_lhs")
    ELSE LET o1 == CheckDistDimension(o, "init_lhs")
         IN  IF o1.pc = "error" THEN o1 ELSE CheckLHSOptions(o1)

\* LHS.__init__ up to run_lhs
LHSConstruct ==
    /\ obj.cls = "LHS"
    /\ obj.pc = "new"
    /\ LET o == init_lhs(obj)
       IN  obj' = IF o.pc = "error" THEN o ELSE [o EXCEPT !.pc = "run_lhs"]
    /\ UNCHANGED <<mcmcVars, kwargs, strata>>

\* np.linspace(0, 1, n + 1)
Cut(n) == [k \in 1..(n + 1) |-> Frac(k - 1, n)]

\* the orders np.random.permutation(n) can give
RandomPermutations(n) == {p \in [1..n -> 1..n] : \A x, y \in 1..n : p[x] = p[y] => x = y}

\* one entry of u * (b - a) + a, with the fraction placed at the origin
StratifyAtOrigin(u, a, b) == u

\* one entry of u * (b - a) + a
Stratify(u, a, b) == FracAdd(FracMul(u, FracSub(b, a)), a)

\* LHS._random: row k of column q is drawn in bin k, then each column is
\* reordered by a permutation of its own
RandomDesign(n, d, u, order) ==
    LET cut == Cut(n)
    IN  [r \in 1..n |-> [q \in 1..d |->
            LET k == order[q][r]
            IN  Stratify(u[k][q], cut[k], cut[k + 1])]]

\* LHS._centered: each column is a permutation of the bin centres
CenteredDesign(n, d, order) ==
    LET cut == Cut(n)
    IN  [r \in 1..n |-> [q \in 1..d |->
            LET k == order[q][r]
            IN  FracMul(FracAdd(cut[k], cut[k + 1]), Frac(1, 2))]]

\* run_lhs up to the design.  _max_min and _correlate keep one of the
\* designs _random gives them; np.min of the empty distance list of a
\* single point, and np.fill_diagonal of the scalar correlation of a single
\* column, raise.
LHSDesign ==
    /\ obj.cls = "LHS"
    /\ obj.pc = "run_lhs"
    /\ LET n == obj.nsamples.n
           d == obj.dimension.n
           c == obj.lhs_criterion.s
       IN  \E u \in Rand(n, d), order \in [1..d -> RandomPermutations(n)] :
             obj' = CASE c = "random" ->
                           [obj EXCEPT !.samples = Array2(RandomDesign(n, d, u, order)), !.pc = "transform"]
                      [] c = "centered" ->
                           [obj EXCEPT !.samples = Array2(CenteredDesign(n, d, order)), !.pc = "transform"]
                      [] c = "maximin" ->
                           IF n < 2
                           THEN Failed(obj, "ValueError", "zero-size array to reduction operation minimum", "run_lhs")
                           ELSE [obj EXCEPT !.samples = Array2(RandomDesign(n, d, u, order)), !.pc = "transform"]
                      [] c = "correlate" ->
                           IF d < 2
                           THEN Failed(obj, "ValueError", "array must be at least 2-d", "run_lhs")
                           ELSE [obj EXCEPT !.samples = Array2(RandomDesign(n, d, u, order)), !.pc = "transform"]
                      [] OTHER -> Failed(obj, "UnboundLocalError", "samples", "run_lhs")
    /\ UNCHANGED <<mcmcVars, kwargs, strata>>

\* run_lhs after the design: the first pass of the loop calls inv_cdf on
\* the name dist_type[0]
LHSTransform ==
    /\ obj.cls = "LHS"
    /\ obj.pc = "transform"
    /\ \E cd \in CustomDist :
         obj' = IF obj.nsamples.n = 0 \/ obj.dimension.n = 0
                THEN [obj EXCEPT !.samples_u_to_x = obj.samples, !.pc = "done"]
                ELSE IF Len(obj.dist_type.items) = 0
                THEN Failed(obj, "IndexError", "list index out of range", "run_lhs")
                ELSE [obj EXCEPT !.pc = "error", !.err = InvCdfOfStrError(cd)]
    /\ UNCHANGED <<mcmcVars, kwargs, strata>>

---------------------------------------------------------------------------
(* STS *)

\* the function inv_cdf puts in place of a built-in name; Beta is given the
\* Weibull quantile function with four parameters
BuiltinPpf ==
    [Uniform |-> "stats.uniform.ppf", Normal |-> "stats.norm.ppf",
     Lognormal |-> "stats.lognorm.ppf", Weibull |-> "stats.weibull_min.ppf",
     Beta |-> "stats.weibull_min.ppf", Exponential |-> "stats.expon.ppf",
     Gamma |-> "stats.gamma.ppf"]

\* the entries of params the function f of a built-in name reads
ParamsRead == [Uniform |-> 2, Normal |-> 2, Lognormal |-> 2, Weibull |-> 2, Beta |-> 4, Exponential |-> 2, Gamma |-> 3]

\* the entry inv_cdf writes for a name: f of a built-in name, or the
\* attribute of custom_dist
Resolved(name) ==
    IF name.s \in DistributionNames
    THEN [t |-> "function", f |-> BuiltinPpf[name.s], reads |-> ParamsRead[name.s]]
    ELSE [t |-> "function", f |-> "custom_dist", reads |-> 0]

\* the functions pdf and cdf put in place of a built-in name
BuiltinPdf ==
    [Uniform |-> "stats.uniform.pdf", Normal |-> "stats.norm.pdf",
     Lognormal |-> "stats.lognorm.pdf", Weibull |-> "stats.weibull_min.pdf",
     Beta |-> "stats.weibull_min.pdf", Exponential |-> "stats.expon.pdf",
     Gamma |-> "stats.gamma.pdf"]
BuiltinCdf ==
    [Uniform |-> "stats.uniform.cdf", Normal |-> "stats.norm.cdf",
     Lognormal |-> "stats.lognorm.cdf", Weibull |-> "stats.weibull_min.cdf",
     Beta |-> "stats.weibull_min.cdf", Exponential |-> "stats.expon.cdf",
     Gamma |-> "stats.gamma.cdf"]

\* the entry the resolver fn (pdf, cdf or inv_cdf) writes for a name
ResolvedBy(fn, name) ==
    IF fn = "inv_cdf" \/ name.s \notin DistributionNames THEN Resolved(name)
    ELSE [t |-> "function", f |-> IF fn = "pdf" THEN BuiltinPdf[name.s] ELSE BuiltinCdf[name.s],
          reads |-> ParamsRead[name.s]]

\* an entry that is overwritten whatever its type
ResolveAnyEntry(fn, e) == ResolvedBy(fn, IF e.t = "str" THEN e ELSE PyStr("Uniform"))

\* one pass of the resolver's loop: only an entry whose type is str is
\* overwritten
ResolveEntry(fn, e) == IF e.t = "str" THEN ResolvedBy(fn, e) ELSE e

\* the getattr of a name that is not built in fails: custom_dist.py is
\* absent, or it does not define the name
Unresolvable(e, cd) == e.t = "str" /\ e.s \notin DistributionNames /\ cd # "defined"

\* pdf(dist), cdf(dist), inv_cdf(dist) for a list: the entries are
\* overwritten in order, up to the first name that cannot be resolved
Resolve(fn, items, cd) ==
    LET bad == {k \in 1..Len(items) : Unresolvable(items[k], cd)}
        stop == IF bad = {} THEN Len(items) + 1 ELSE CHOOSE k \in bad : \A m \in bad : k <= m
    IN  [items |-> [k \in 1..Len(items) |-> IF k < stop THEN ResolveEntry(fn, items[k]) ELSE items[k]],
         err |-> IF bad = {} THEN NoError
                 ELSE IF cd = "absent"
                 THEN Exception("NotImplementedError", "Unidentified pdf_type", fn)
                 ELSE Exception("AttributeError", "custom_dist has no such attribute", fn)]

\* inv_cdf(dist) for a list
inv_cdf(dist, cd) ==
    LET r == Resolve("inv_cdf", dist.items, cd)
    IN  [dist |-> PyList(r.items), err |-> r.err]

\* icdf(x, params): the quantile at x, with the function and its
\* parameters; stats.uniform.ppf(x, loc, scale) is loc + scale * x
Quantile(icdf, x, params) ==
    IF icdf.f = "stats.uniform.ppf"
    THEN [f |-> icdf.f, x |-> x, params |-> params,
          value |-> FracAdd(Frac(params[1], 1), FracMul(Frac(params[2], 1), x))]
    ELSE [f |-> icdf.f, x |-> x, params |-> params]

\* init_sts, the dimension
CheckStsDimension(o) ==
    IF IsNone(o.dimension) /\ ~IsNone(o.sts_design)
    THEN [o EXCEPT !.dimension = PyInt(Len(o.sts_design.items))]
    ELSE IF ~IsNone(o.sts_design)
    THEN IF o.dimension.n # Len(o.sts_design.items)
         THEN Failed(o, "NotImplementedError", "Incompatible dimensions.", "init_sts")
         ELSE o
    ELSE IF IsNone(o.dimension)
    THEN Failed(o, "NotImplementedError", "Dimension must be specified.", "init_sts")
    ELSE o

\* init_sts, dist_type: the default, a name made a list, a list of one
\* repeated
CheckStsDistType(o) ==
    LET lst == IF IsNone(o.dist_type) THEN PyList(<<PyStr("Uniform")>>)
               ELSE IF TypeName(o.dist_type) = "str" THEN PyList(<<o.dist_type>>)
               ELSE o.dist_type
        o1 == [o EXCEPT !.dist_type = lst]
    IN  IF Len(lst.items) # o.dimension.n
        THEN IF Len(lst.items) = 1
             THEN [o1 EXCEPT !.dist_type = PyList(Tile(lst.items, o.dimension.n))]
             ELSE Failed(o1, "NotImplementedError", "Incompatible dimensions in 'dist_type'.", "init_sts")
        ELSE o1

\* init_sts, dist_params: the default np.array([0, 1]) where every name is
\* the literal 'Uniform', a value made a list, a list of one repeated
CheckStsDistParams(o) ==
    LET names == o.dist_type.items
        o1 == IF IsNone(o.dist_params) /\ Len(names) > 0
              THEN [o EXCEPT !.dist_params = Array1(<<0, 1>>)]
              ELSE o
        lst == IF TypeName(o1.dist_params) # "list"
               THEN PyList(<<Vec(o1.dist_params)>>)
               ELSE o1.dist_params
        o2 == [o1 EXCEPT !.dist_params = lst]
    IN  IF IsNone(o.dist_params) /\ \E k \in 1..Len(names) : ~Is(names[k], "Uniform")
        THEN Failed(o, "NotImplementedError", "Distribution parameters not defined.", "init_sts")
        ELSE IF Len(lst.items) # o.dimension.n
        THEN IF Len(lst.items) = 1
             THEN [o2 EXCEPT !.dist_params = PyList(Tile(lst.items, o.dimension.n))]
             ELSE Failed(o2, "NotImplementedError", "Incompatible dimensions in 'dist_params'.", "init_sts")
        ELSE o2

\* init_sts up to the stratum design
init_sts(o) ==
    LET o1 == CheckStsDimension(o)
        o2 == CheckStsDistType(o1)
        o3 == CheckStsDistParams(o2)
    IN  IF o1.pc = "error" THEN o1
        ELSE IF o2.pc = "error" THEN o2
        ELSE IF o3.pc = "error" THEN o3
        ELSE IF IsNone(o3.sts_design) /\ IsNone(o3.input_file)
        THEN Failed(o3, "NotImplementedError", "Stratum design is not defined.", "init_sts")
        ELSE IF ~IsNone(o3.sts_design) /\ Len(o3.sts_design.items) # o3.dimension.n
        THEN Failed(o3, "NotImplementedError", "Incompatible dimensions in 'sts_design'.", "init_sts")
        ELSE o3

\* STS.__init__ and init_sts up to the call of Strata
STSConstruct ==
    /\ obj.cls = "STS"
    /\ obj.pc = "new"
    /\ LET o == init_sts(obj)
       IN  IF o.pc = "error"
           THEN obj' = o /\ UNCHANGED strata
           ELSE /\ obj' = [o EXCEPT !.pc = "Strata"]
                /\ strata' = IF IsNone(o.sts_design)
                             THEN NewStrataFrom(o.input_file, None, None)
                             ELSE NewStrata(o.sts_design)
    /\ UNCHANGED <<mcmcVars, kwargs>>

\* a cell of np.empty that has not been assigned
Uninitialized == [f |-> "uninitialized"]

\* Strata has returned or raised: its exception ends the call; otherwise
\* the names are resolved and run_sts allocates its arrays
STSResolve ==
    /\ obj.cls = "STS"
    /\ obj.pc = "Strata"
    /\ strata.pc \in {"done", "error"}
    /\ \E cd \in CustomDist :
         LET r == inv_cdf(obj.dist_type, cd)
             shape == Shape(strata.origins)
         IN  obj' = IF strata.pc = "error"
                    THEN [obj EXCEPT !.pc = "error", !.err = strata.err]
                    ELSE IF r.err # NoError
                    THEN [obj EXCEPT !.pc = "error", !.err = r.err]
                    ELSE [obj EXCEPT !.pc = "run_sts", !.dist_type = r.dist, !.icdf = r.dist,
                                     !.samples = Array2(Repeat(Repeat(Uninitialized, shape[2]), shape[1])),
                                     !.samples_u_to_x = Array2(Repeat(Repeat(Uninitialized, shape[2]), shape[1])),
                                     !.col = 0]
    /\ UNCHANGED <<mcmcVars, kwargs, strata>>

\* a draw that ignores the interval it is given
UniformOnUnit(low, high, u) == u

\* np.random.uniform(low, high): the point at the fraction u of [low, high)
Uniform(low, high, u) == FracAdd(low, FracMul(u, FracSub(high, low)))

\* one column of run_sts: a point is drawn in every stratum, row by row,
\* and transformed with the column's function and parameters (the arrays
\* hold the values in single precision; the values here are exact)
STSColumn ==
    /\ obj.cls = "STS"
    /\ obj.pc = "run_sts"
    /\ obj.col < Shape(strata.origins)[2]
    /\ LET q == obj.col + 1
           rows == Shape(strata.origins)[1]
       IN  IF q > Len(obj.icdf.items)
           THEN obj' = Failed(obj, "IndexError", "list index out of range", "run_sts")
           ELSE \E u \in [1..rows -> UnitDraws] :
                  LET invcdf == obj.icdf.items[q]
                      point == [k \in 1..rows |->
                                  Uniform(strata.origins.a[k][q],
                                          FracAdd(strata.origins.a[k][q], strata.widths.a[k][q]), u[k])]
                      drawn == [k \in 1..rows |-> [obj.samples.a[k] EXCEPT ![q] = [f |-> "uniform", value |-> point[k]]]]
                  IN  IF rows > 0 /\ Len(obj.dist_params.items[q]) < invcdf.reads
                      THEN obj' = Failed([obj EXCEPT !.samples = Array2([obj.samples.a EXCEPT ![1] = drawn[1]])],
                                         "IndexError", "index out of bounds", "run_sts")
                      ELSE obj' = [obj EXCEPT
                               !.samples = Array2(drawn),
                               !.samples_u_to_x = Array2([k \in 1..rows |->
                                   [obj.samples_u_to_x.a[k] EXCEPT ![q] = Quantile(invcdf, point[k], obj.dist_params.items[q])]]),
                               !.col = q]
    /\ UNCHANGED <<mcmcVars, kwargs, strata>>

\* run_sts returns: samplesU01 and samples are set
STSReturn ==
    /\ obj.cls = "STS"
    /\ obj.pc = "run_sts"
    /\ obj.col >= Shape(strata.origins)[2]
    /\ obj' = [obj EXCEPT !.pc = "done"]
    /\ UNCHANGED <<mcmcVars, kwargs, strata>>

---------------------------------------------------------------------------
(* PSS *)

\* the keyword parameters of STS.__init__
STSKeywords == {"dimension", "dist_type", "dist_params", "sts_design", "input_file"}

\* whether the numpy installed still has the alias np.int
NumpyHasInt == BOOLEAN

\* sample_check of init_pss: pss_strata[i] ** pss_design[j] for every pair
\* of i and j
SampleCheck(pss_strata, pss_design) ==
    {Power(pss_strata[a], pss_design[b]) : a \in 1..Len(pss_strata), b \in 1..Len(pss_design)}

\* sum(q)
RECURSIVE Sum(_)
Sum(q) == IF q = <<>> THEN 0 ELSE q[1] + Sum(Tail(q))

\* init_pss up to the dimension
CheckPssDesign(o) ==
    IF IsNone(o.dist_type)
    THEN Failed(o, "NotImplementedError", "Distribution not defined.", "init_pss")
    ELSE IF \E k \in 1..Len(o.dist_type.items) : o.dist_type.items[k].s \notin DistributionNames
    THEN Failed(o, "NotImplementedError", "Unrecognized type of distribution.", "init_pss")
    ELSE IF IsNone(o.dist_params)
    THEN Failed(o, "NotImplementedError", "Distribution parameters not defined.", "init_pss")
    ELSE IF IsNone(o.pss_design)
    THEN Failed(o, "NotImplementedError", "pss design not defined.", "init_pss")
    ELSE IF IsNone(o.pss_strata)
    THEN Failed(o, "NotImplementedError", "pss strata not defined.", "init_pss")
    ELSE IF Len(o.pss_design.items) # Len(o.pss_strata.items)
    THEN Failed(o, "ValueError", "pss design and pss strata must be the same length.", "init_pss")
    ELSE IF Cardinality(SampleCheck(o.pss_strata.items, o.pss_design.items)) > 1
    THEN Failed(o, "ValueError", "All dimensions must have the same number of samples/strata.", "init_pss")
    ELSE IF IsNone(o.dimension)
    THEN [o EXCEPT !.dimension = PyInt(Sum(o.pss_design.items))]
    ELSE IF o.dimension.n # Sum(o.pss_design.items)
    THEN Failed(o, "NotImplementedError", "Incompatible dimensions.", "init_pss")
    ELSE o

\* PSS.init_pss
init_pss(o) ==
    LET o1 == CheckPssDesign(o)
    IN  IF o1.pc = "error" THEN o1 ELSE BroadcastDistLists(o1, "init_pss")

\* PSS.__init__ up to run_pss
PSSConstruct ==
    /\ obj.cls = "PSS"
    /\ obj.pc = "new"
    /\ LET o == init_pss(obj)
       IN  obj' = IF o.pc = "error" THEN o
                  ELSE IF Len(o.pss_strata.items) = 0
                  THEN Failed(o, "IndexError", "list index out of range", "PSS.__init__")
                  ELSE [o EXCEPT !.nsamples = PyInt(Power(o.pss_strata.items[1], o.pss_design.items[1])),
                                 !.pc = "run_pss"]
    /\ UNCHANGED <<mcmcVars, kwargs, strata>>

\* run_pss: the arrays are allocated; the first pass of the loop over the
\* blocks builds n_stratum with np.int and calls STS with the keyword pss_
PSSBlock ==
    /\ obj.cls = "PSS"
    /\ obj.pc = "run_pss"
    /\ \E np_int \in NumpyHasInt :
         LET o == [obj EXCEPT !.samples = Array2(Repeat(Repeat(Frac(0, 1), obj.dimension.n), obj.nsamples.n)),
                              !.samples_u_to_x = Array2(Repeat(Repeat(Frac(0, 1), obj.dimension.n), obj.nsamples.n))]
         IN  obj' = IF Len(obj.pss_design.items) = 0
                    THEN [o EXCEPT !.pc = "done"]
                    ELSE IF ~np_int
                    THEN Failed(o, "AttributeError", "module 'numpy' has no attribute 'int'", "run_pss")
                    ELSE IF "pss_" \notin STSKeywords
                    THEN Failed(o, "TypeError", "__init__() got an unexpected keyword argument 'pss_'", "run_pss")
                    ELSE [o EXCEPT !.pc = "STS"]
    /\ UNCHANGED <<mcmcVars, kwargs, strata>>

---------------------------------------------------------------------------
(* The calls of the designs *)

MaxListLen == 2       \* longest dist_type and dist_params list given
MaxSamples == 3       \* largest nsamples given to MCS and LHS
MaxDesignCells == 6   \* most entries (nsamples x dimension) of a design of LHS
MaxBlocks == 2        \* most blocks of a PSS design
MaxBlockDim == 2      \* largest entry of pss_design
MaxStsCells == 8      \* most entries (strata x dimension) of an STS design

\* lists of 1 to n entries of S
ListsOf(E, n) == {PyList(q) : q \in UNION {[1..m -> E] : m \in 1..n}}

\* the dimensions given: none, 1 .. MaxDim
Dimensions == {None} \cup {PyInt(d) : d \in 1..MaxDim}

\* the parameter lists given: [0, 1] for every entry
ParamLists == {None} \cup ListsOf({<<0, 1>>}, MaxListLen)

\* the name lists given to MCS: built-in names and one that is not
MCSCalls ==
    {NewObject("MCS", d, t, p, n, NoOptions) :
        d \in Dimensions,
        t \in {None} \cup ListsOf({PyStr("Uniform"), PyStr("Normal"), PyStr("Cauchy")}, MaxListLen),
        p \in ParamLists,
        n \in {None} \cup {PyInt(k) : k \in 1..(MaxSamples - 1)}}

\* the options of LHS: one of the three given, the others left out
LHSOptions ==
    {[NoOptions EXCEPT !.lhs_criterion = c] :
        c \in {None, PyStr("random"), PyStr("centered"), PyStr("maximin"), PyStr("correlate"), PyStr("optimal")}}
      \cup {[NoOptions EXCEPT !.lhs_metric = m] : m \in {PyStr("euclidean"), PyStr("yule")}}
      \cup {[NoOptions EXCEPT !.lhs_iter = k] : k \in {PyInt(0), PyInt(2)}}

LHSCalls ==
    {NewObject("LHS", d, t, p, n, opt) :
        d \in Dimensions,
        t \in {None, PyList(<<PyStr("Uniform")>>), PyList(<<PyStr("Uniform"), PyStr("Normal")>>)},
        p \in ParamLists,
        n \in {None} \cup {PyInt(k) : k \in 1..MaxSamples},
        opt \in LHSOptions}

\* the calls of LHS whose design has at most MaxDesignCells entries
SmallLHSCalls ==
    {o \in LHSCalls :
        LET d == IF ~IsNone(o.dimension) THEN o.dimension.n
                 ELSE IF ~IsNone(o.dist_type) THEN Len(o.dist_type.items) ELSE 0
        IN  IsNone(o.nsamples) \/ o.nsamples.n * d <= MaxDesignCells}

PSSCalls ==
    {NewObject("PSS", d, t, p, None, [NoOptions EXCEPT !.pss_design = design, !.pss_strata = str]) :
        d \in {None, PyInt(2), PyInt(3)},
        t \in {None, PyList(<<PyStr("Uniform")>>), PyList(<<PyStr("Uniform"), PyStr("Normal")>>),
               PyList(<<PyStr("Cauchy")>>)},
        p \in ParamLists,
        design \in {None} \cup ListsOf(1..MaxBlockDim, MaxBlocks),
        str \in {None} \cup ListsOf({1, 2, 4}, MaxBlocks)}

\* layout files given to STS: two halves, one cell, two cells of a square
STSFiles ==
    {File(<<<<Frac(0, 1), Frac(1, 2)>>, <<Frac(1, 2), Frac(1, 2)>>>>),
     File(<<<<Frac(0, 1), Frac(1, 1)>>>>),
     File(<<<<Frac(0, 1), Frac(0, 1), Frac(1, 1), Frac(1, 2)>>,
            <<Frac(0, 1), Frac(1, 2), Frac(1, 1), Frac(1, 2)>>>>)}

\* the designs given to STS: at most MaxStsCells entries in the arrays
STSDesigns == {q \in ListsOf(1..MaxStrata, MaxListLen) : Prod(q.items) * Len(q.items) <= MaxStsCells}

\* the names and the parameters given to STS
STSNames ==
    {None, PyStr("Uniform"), PyStrDyn("Uniform"), PyList(<<PyStr("Uniform")>>),
     PyList(<<PyStrDyn("Uniform")>>), PyList(<<PyStr("Uniform"), PyStr("Normal")>>),
     PyList(<<PyStr("Cauchy")>>)}
STSParams == {None, Array1(<<0, 1>>)} \cup ListsOf({<<0, 1>>, <<1, 2>>}, MaxListLen)

\* the calls of STS: with a design, with a layout file, with neither
STSCalls ==
    {NewObject("STS", d, t, p, None, [NoOptions EXCEPT !.sts_design = design]) :
        d \in {None, PyInt(1), PyInt(2)}, t \in STSNames, p \in STSParams, design \in STSDesigns}
      \cup {NewObject("STS", d, t, p, None, [NoOptions EXCEPT !.input_file = f]) :
        d \in {None, PyInt(1), PyInt(2)}, t \in STSNames, p \in STSParams, f \in {None} \cup STSFiles}

InitDesign ==
    /\ obj \in MCSCalls \cup SmallLHSCalls \cup PSSCalls \cup STSCalls
    /\ strata = NoStrata
    /\ NoMCMC

NextDesign ==
    \/ MCSConstruct
    \/ MCSRun
    \/ LHSConstruct
    \/ LHSDesign
    \/ LHSTransform
    \/ PSSConstruct
    \/ PSSBlock
    \/ STSConstruct
    \/ StrataConstruct
    \/ FullfactColumn
    \/ StrataFinish
    \/ STSResolve
    \/ STSColumn
    \/ STSReturn

SpecDesign == InitDesign /\ [][NextDesign]_vars

\* LHS alone
InitLHS ==
    /\ obj \in SmallLHSCalls
    /\ strata = NoStrata
    /\ NoMCMC

NextLHS ==
    \/ LHSConstruct
    \/ LHSDesign
    \/ LHSTransform

SpecLHS == InitLHS /\ [][NextLHS]_vars

\* STS alone, with the Strata it builds
InitSTS ==
    /\ obj \in STSCalls
    /\ strata = NoStrata
    /\ NoMCMC

NextSTS ==
    \/ STSConstruct
    \/ StrataConstruct
    \/ FullfactColumn
    \/ StrataFinish
    \/ STSResolve
    \/ STSColumn
    \/ STSReturn

SpecSTS == InitSTS /\ [][NextSTS]_vars

---------------------------------------------------------------------------
(* The registry called directly: pdf, cdf or inv_cdf is given the caller's *)
(* list, once and again.  The list is an object of the heap, named by its  *)
(* position there; the call returns the name of a list.                    *)

MaxCalls == 2         \* most calls of a resolver on one list

Resolvers == {"pdf", "cdf", "inv_cdf"}

\* the entries of the caller's list: built-in names, a name that is not
\* built in, a function of the caller's
RegistryEntries == {PyStr("Uniform"), PyStr("Beta"), PyStr("Cauchy"), Function("user")}

\* before the first call: the caller holds one list
NewRegistry(items, cd) ==
    [cls |-> "registry", pc |-> "ready", err |-> NoError, heap |-> <<items>>, dist |-> 1,
     returned |-> 0, calls |-> <<>>, before |-> items, cd |-> cd]

RegistryCalls ==
    {NewRegistry(lst.items, cd) : lst \in ListsOf(RegistryEntries, MaxListLen), cd \in CustomDist}

\* one call fn(dist): the loop overwrites entries of the list it was given
\* and `return dist` returns that list; an exception leaves the entries
\* overwritten so far
RegistryCall ==
    /\ obj.cls = "registry"
    /\ Len(obj.calls) < MaxCalls
    /\ \E fn \in Resolvers :
         LET r == Resolve(fn, obj.heap[obj.dist], obj.cd)
         IN  obj' = [obj EXCEPT !.before = obj.heap[obj.dist],
                                !.heap[obj.dist] = r.items,
                                !.calls = Append(@, fn),
                                !.err = r.err,
                                !.returned = IF r.err = NoError THEN obj.dist ELSE 0,
                                !.pc = IF r.err = NoError THEN "returned" ELSE "raised"]
    /\ UNCHANGED <<mcmcVars, kwargs, strata>>

\* the registry called directly, and by STS
InitRegistry ==
    /\ obj \in RegistryCalls \cup STSCalls
    /\ strata = NoStrata
    /\ NoMCMC

NextRegistry ==
    \/ RegistryCall
    \/ NextSTS

SpecRegistry == InitRegistry /\ [][NextRegistry]_vars

---------------------------------------------------------------------------
(* Two runs of MMH with marginal_pdf, side by side.  The runs have the     *)
(* configuration of one coordinate, the focus, in common, and see the same *)
(* draws whenever that coordinate is proposed; in the other coordinate     *)
(* seed, proposal, target and draws are free.  A draw of the proposal is   *)
(* the offset of the candidate from its centre.                            *)

MaxPairRows == 3      \* most rows of their raw buffers

\* the offsets a proposal of the given type and scale draws around x
ProposalOffsets(type, scale, x) ==
    {y - x : y \in IF type = "Normal" THEN NormalDraws(x, scale)
                   ELSE IF type = "Uniform" THEN UniformDraws(x, scale)
                   ELSE {}}

\* accept = np.random.random() < p_proposal / p_current for the draw u.  On
\* p_current = 0 a target that returns Python floats raises, one that
\* returns numpy floats gives inf (accepted) or nan (rejected).
AcceptDraw(f, u, num, den) ==
    IF den = 0
    THEN IF f = "user_float" THEN "ZeroDivisionError"
         ELSE IF num > 0 THEN "accept" ELSE "reject"
    ELSE IF u.num * den < num * u.den THEN "accept" ELSE "reject"

\* a proposal centred at the first coordinate, whatever j is
FirstCoordinate(row, k) == row[1]

\* samples[i, j], the centre of the proposal for coordinate j
MarginalCentre(row, k) == row[k + 1]

\* a run of MMH, marginal_pdf, as run_mcmc starts its loop: the attributes
\* init_mcmc leaves, the buffer with the seed in row 0
NewRun(seed, types, targets, nsamples, jump, nburn) ==
    [seed |-> seed, pdf_proposal_type |-> types, pdf_proposal_scale |-> <<2, 2>>,
     pdf_target |-> targets, nsamples |-> nsamples, jump |-> jump, nburn |-> nburn,
     samples |-> SetRows(Zeros2(nsamples * jump, Len(seed)), 0, <<seed>>),
     i |-> 0, j |-> 0, pc |-> "MMH_marginal", err |-> NoError, output |-> Unbound]

RunSteps(run) == run.nsamples * run.jump - 1 + run.nburn
Running(run) == run.pc = "MMH_marginal" /\ run.i < RunSteps(run)

\* the offsets the run can draw for its next proposal
RunOffsets(run) ==
    ProposalOffsets(run.pdf_proposal_type[run.j + 1], run.pdf_proposal_scale[run.j + 1],
                    MarginalCentre(At(run.samples, run.i), run.j))

\* the draws of the run's next pass: the offset and the acceptance draw; a
\* run that has stopped draws nothing
RunDraws(run) ==
    IF Running(run) THEN RunOffsets(run) \X UnitDraws ELSE {<<0, Frac(0, 1)>>}

\* one pass of the inner loop with the proposal draw off and the
\* acceptance draw u
MarginalStep(run, off, u) ==
    LET xj == At(run.samples, run.i)[run.j + 1]
        y == MarginalCentre(At(run.samples, run.i), run.j) + off
        f == run.pdf_target[run.j + 1]
        out == AcceptDraw(f, u, Density(f, <<y>>, 1), Density(f, <<xj>>, 1))
    IN  IF out = "ZeroDivisionError"
        THEN [run EXCEPT !.pc = "error", !.err = AcceptError(out)]
        ELSE IF run.i + 1 >= Len(run.samples)
        THEN [run EXCEPT !.pc = "error", !.err = IndexError]
        ELSE [run EXCEPT !.samples[run.i + 2][run.j + 1] = IF out = "accept" THEN y ELSE xj,
                         !.j = IF run.j + 1 < Len(run.seed) THEN run.j + 1 ELSE 0,
                         !.i = IF run.j + 1 < Len(run.seed) THEN run.i ELSE run.i + 1]

\* the two runs make their next proposal, with the same draws when it is
\* for the focus
PairStep ==
    /\ obj.cls = "pair"
    /\ Running(obj.A) \/ Running(obj.B)
    /\ \E da \in RunDraws(obj.A), db \in RunDraws(obj.B) :
         /\ (Running(obj.A) /\ Running(obj.B) /\ obj.A.j = obj.focus) => da = db
         /\ obj' = [obj EXCEPT !.A = IF Running(obj.A) THEN MarginalStep(obj.A, da[1], da[2]) ELSE obj.A,
                               !.B = IF Running(obj.B) THEN MarginalStep(obj.B, db[1], db[2]) ELSE obj.B]
    /\ UNCHANGED <<mcmcVars, kwargs, strata>>

\* run_mcmc's return in a run whose loop has run out
Returned(run) ==
    IF run.pc = "MMH_marginal" /\ run.i >= RunSteps(run)
    THEN [run EXCEPT !.pc = "done",
                     !.output = Array2(Thin(run.samples, run.nburn,
                                            run.nsamples * run.jump + run.nburn, run.jump))]
    ELSE run

PairReturn ==
    /\ obj.cls = "pair"
    /\ ~Running(obj.A) /\ ~Running(obj.B)
    /\ obj.A.pc = "MMH_marginal" \/ obj.B.pc = "MMH_marginal"
    /\ obj' = [obj EXCEPT !.A = Returned(obj.A), !.B = Returned(obj.B)]
    /\ UNCHANGED <<mcmcVars, kwargs, strata>>

\* targets of the other coordinate: the normal density, a density of
\* bounded support that returns Python floats
PairTargets == {"norm", "user_float"}
PairProposals == {"Uniform", "Normal"}

\* the two coordinates of a run: x in the focus coordinate k (0-based), y
\* in the other
Placed(k, x, y) == IF k = 0 THEN <<x, y>> ELSE <<y, x>>

PairCalls ==
    {[cls |-> "pair", pc |-> "run", err |-> NoError, focus |-> k,
      A |-> NewRun(Placed(k, sd, z.sa), Placed(k, pt, z.pa), Placed(k, tg, z.ta), sz[1], sz[2], nb),
      B |-> NewRun(Placed(k, sd, z.sb), Placed(k, pt, z.pb), Placed(k, tg, z.tb), sz[1], sz[2], nb)] :
        k \in {0, 1}, sd \in {0, 2}, pt \in PairProposals, tg \in {"user"},
        sz \in {<<n, 1>> : n \in 2..MaxPairRows} \cup {<<1, 2>>},
        nb \in {0},
        z \in [sa : {1}, sb : {0, 2}, pa : {"Uniform"}, pb : PairProposals,
               ta : {"user"}, tb : PairTargets]}

InitPair ==
    /\ obj \in PairCalls
    /\ strata = NoStrata
    /\ NoMCMC

NextPair ==
    \/ PairStep
    \/ PairReturn

SpecPair == InitPair /\ [][NextPair]_vars

---------------------------------------------------------------------------
(* LHS._max_min and LHS._correlate, trial by trial.  Distances and         *)
(* correlations are kept as their squares, which are quotients and order   *)
(* as the values do.  A score is a number, or nan.                         *)

MaxIter == 2          \* most trials (lhs_iter)
MaxSelectCells == 4   \* most entries of a design that is selected

Num(v) == [t |-> "num", v |-> v]
NaN == [t |-> "nan"]
Inf == [t |-> "inf"]

\* the designs _random can give
RandomDesigns(n, d) ==
    {RandomDesign(n, d, u, order) : u \in Rand(n, d), order \in [1..d -> RandomPermutations(n)]}

\* the squared euclidean distance of two rows
SqDist(x, y) ==
    FracSum([q \in 1..Len(x) |-> FracMul(FracSub(x[q], y[q]), FracSub(x[q], y[q]))])

\* np.min(pdist(samples_try, metric = 'euclidean')), squared; pdist of a
\* single row is empty, and np.min of it raises
MinDist(design) ==
    LET pairs == {km \in (1..Len(design)) \X (1..Len(design)) : km[1] < km[2]}
        dist == {SqDist(design[km[1]], design[km[2]]) : km \in pairs}
    IN  IF pairs = {} THEN [t |-> "error"]
        ELSE Num(CHOOSE m \in dist : \A z \in dist : FracLeq(m, z))

\* n * sum(x * y) - sum(x) * sum(y) for two columns of the design
Cross(design, p, q) ==
    LET n == Len(design)
        x == [k \in 1..n |-> design[k][p]]
        y == [k \in 1..n |-> design[k][q]]
    IN  FracSub(FracMul(Frac(n, 1), FracSum([k \in 1..n |-> FracMul(x[k], y[k])])),
                FracMul(FracSum(x), FracSum(y)))

\* the entry R[p, q] of np.corrcoef: nan for a column that does not vary (a
\* single row), else its square and whether it is 1
Corr(design, p, q) ==
    LET cxy == Cross(design, p, q)
        cxx == Cross(design, p, p)
        cyy == Cross(design, q, q)
    IN  IF Len(design) < 2 \/ cxx.num = 0 \/ cyy.num = 0 THEN [nan |-> TRUE]
        ELSE [nan |-> FALSE,
              sq |-> Frac(cxy.num * cxy.num * cxx.den * cyy.den, cxy.den * cxy.den * cxx.num * cyy.num),
              one |-> cxy.num > 0 /\ cxy.num * cxy.num * cxx.den * cyy.den = cxy.den * cxy.den * cxx.num * cyy.num]

\* np.max(np.abs(R1)), squared, for R1 = R[R != 1] after the diagonal is
\* filled with 1.  A correlation that is 1 comes out of the floating-point
\* division as 1.0 or just below: exact tells which.  nan is not 1 and
\* np.max of an array that holds a nan is nan; np.max of no entry raises;
\* so does np.fill_diagonal of the scalar a single column gives.
MaxCorr(design, exact) ==
    LET d == Len(design[1])
        off == {pq \in (1..d) \X (1..d) : pq[1] # pq[2]}
        R == {<<pq, Corr(design, pq[1], pq[2])>> : pq \in off}
        R1 == {e \in R : e[2].nan \/ ~(e[2].one /\ exact)}
        sq == {e[2].sq : e \in {e \in R1 : ~e[2].nan}}
    IN  IF d < 2 \/ R1 = {} THEN [t |-> "error"]
        ELSE IF \E e \in R1 : e[2].nan THEN NaN
        ELSE Num(CHOOSE m \in sq : \A z \in sq : FracLeq(z, m))

\* the score of a trial
Score(criterion, design, exact) ==
    IF criterion = "maximin" THEN MinDist(design) ELSE MaxCorr(design, exact)

\* the test that replaces the design kept: max_min_dist < np.min(d), or
\* np.max(np.abs(R1)) < min_corr; a comparison with nan is False
Improves(criterion, score, best) ==
    /\ score.t = "num"
    /\ IF criterion = "maximin" THEN FracLess(best.v, score.v)
       ELSE best.t = "inf" \/ FracLess(score.v, best.v)

\* _max_min and _correlate up to the loop: max_min_dist = 0 or
\* min_corr = np.inf, and samples = self._random(a, b)
SelectBegin ==
    /\ obj.cls = "LHS"
    /\ obj.pc = "run_lhs"
    /\ obj.lhs_criterion.s \in {"maximin", "correlate"}
    /\ \E design \in RandomDesigns(obj.nsamples.n, obj.dimension.n) :
         obj' = [best |-> IF obj.lhs_criterion.s = "maximin" THEN Num(Frac(0, 1)) ELSE Inf,
                 iter |-> 0, tried |-> <<>>]
                @@ [obj EXCEPT !.samples = Array2(design), !.pc = "select"]
    /\ UNCHANGED <<mcmcVars, kwargs, strata>>

\* one pass of the loop: a design is drawn and scored, and kept if it
\* improves on the best score so far
SelectTrial ==
    /\ obj.cls = "LHS"
    /\ obj.pc = "select"
    /\ obj.iter < obj.lhs_iter.n
    /\ \E design \in RandomDesigns(obj.nsamples.n, obj.dimension.n), exact \in BOOLEAN :
       \E score \in {Score(obj.lhs_criterion.s, design, exact)} :
         LET c == obj.lhs_criterion.s
         IN  obj' = IF score.t = "error"
                    THEN Failed(obj, "ValueError",
                                IF c = "correlate" /\ obj.dimension.n < 2 THEN "array must be at least 2-d"
                                ELSE "zero-size array to reduction operation", "run_lhs")
                    ELSE IF Improves(c, score, obj.best)
                    THEN [obj EXCEPT !.samples = Array2(design), !.best = score,
                                     !.iter = @ + 1,
                                     !.tried = Append(@, [samples_try |-> design, score |-> score])]
                    ELSE [obj EXCEPT !.iter = @ + 1,
                                     !.tried = Append(@, [samples_try |-> design, score |-> score])]
    /\ UNCHANGED <<mcmcVars, kwargs, strata>>

\* return samples: run_lhs goes on with the design kept
SelectReturn ==
    /\ obj.cls = "LHS"
    /\ obj.pc = "select"
    /\ obj.iter >= obj.lhs_iter.n
    /\ obj' = [obj EXCEPT !.pc = "transform"]
    /\ UNCHANGED <<mcmcVars, kwargs, strata>>

\* the calls of LHS with the criterion maximin or correlate and lhs_iter
\* given, the metric left to its default
SelectCalls ==
    {NewObject("LHS", PyInt(nd[2]), PyList(<<PyStr("Uniform")>>), PyList(<< <<0, 1>> >>), PyInt(nd[1]),
               [NoOptions EXCEPT !.lhs_criterion = PyStr(c), !.lhs_metric = m, !.lhs_iter = PyInt(k)]) :
        nd \in {q \in (1..MaxSamples) \X (1..MaxDim) : q[1] * q[2] <= MaxSelectCells},
        c \in {"maximin", "correlate"}, m \in {None}, k \in 1..MaxIter}

InitSelect ==
    /\ obj \in SelectCalls
    /\ strata = NoStrata
    /\ NoMCMC

NextSelect ==
    \/ LHSConstruct
    \/ SelectBegin
    \/ SelectTrial
    \/ SelectReturn
    \/ LHSTransform

SpecSelect == InitSelect /\ [][NextSelect]_vars

---------------------------------------------------------------------------
(* Properties of the designs *)

\* x lies in bin k of the n bins of [0, 1]: k/n <= x < (k+1)/n
InBin(x, k, n) == FracLeq(Frac(k, n), x) /\ FracLess(x, Frac(k + 1, n))

\* every bin holds exactly one entry of column q
LatinColumn(m, q, n) == \A k \in 0..(n - 1) : Cardinality({r \in 1..n : InBin(m[r][q], k, n)}) = 1

\* C14: with the criterion random or centered and n samples, the bin indices
\* of every column of the generated design are a permutation of 0..n-1, and
\* with centered every entry is the centre of its bin
C14_LatinHypercube ==
    (obj.cls = "LHS" /\ IsBound(obj.samples) /\ obj.lhs_criterion.s \in {"random", "centered"}) =>
        LET n == obj.nsamples.n
            m == obj.samples.a
        IN  /\ Len(m) = n
            /\ \A r \in 1..n : Len(m[r]) = obj.dimension.n
            /\ \A q \in 1..obj.dimension.n : LatinColumn(m, q, n)
            /\ obj.lhs_criterion.s = "centered" =>
                 \A r \in 1..n, q \in 1..obj.dimension.n :
                    \E k \in 0..(n - 1) : m[r][q] = Frac(2 * k + 1, 2 * n)

\* a random design of three samples in two dimensions has been generated,
\* and its first row is not in the first bin
C14_Designed ==
    /\ obj.cls = "LHS"
    /\ IsBound(obj.samples)
    /\ obj.lhs_criterion.s = "random"
    /\ obj.nsamples.n = 3
    /\ obj.dimension.n = 2
    /\ ~InBin(obj.samples.a[1][1], 0, 3)

BlockSamples(o) == {Power(o.pss_strata.items[a], o.pss_design.items[a]) : a \in 1..Len(o.pss_design.items)}

\* C16: the validation of PSS refuses a design for its sample counts only
\* when pss_strata[i] ** pss_design[i] differs between blocks i; a design
\* in which it is the same for every block is accepted
C16_BlockwiseCheck ==
    (obj.cls = "PSS" /\ obj.pc = "error" /\ obj.err.where = "init_pss" /\ obj.err.type = "ValueError"
        /\ Len(obj.pss_design.items) = Len(obj.pss_strata.items)) =>
        Cardinality(BlockSamples(obj)) > 1

\* C17: a call of PSS whose design passes the validation completes: no
\* exception is raised after init_pss, and the arrays returned have
\* nsamples rows and dimension columns
C17_PSSCompletes ==
    (obj.cls = "PSS" /\ obj.pc \in {"error", "done"}) =>
        \/ obj.pc = "error" /\ obj.err.where = "init_pss"
        \/ /\ obj.pc = "done"
           /\ Shape(obj.samples) = <<obj.nsamples.n, obj.dimension.n>>
           /\ Shape(obj.samples_u_to_x) = <<obj.nsamples.n, obj.dimension.n>>

\* C18: the arrays run_pss has filled are returned, and they correspond row
\* by row: samples[r, j] is the quantile at samplesU01[r, j]
C18_RowsCorrespond ==
    (obj.cls = "PSS" /\ IsBound(obj.samples_u_to_x)) =>
        /\ obj.pc = "done"
        /\ \A r \in 1..obj.nsamples.n, q \in 1..obj.dimension.n :
             obj.samples_u_to_x.a[r][q].x = obj.samples.a[r][q].value

\* C19: a call of MCS whose configuration passes the validation completes
\* and returns two arrays of nsamples rows and dimension columns
C19_MCSCompletes ==
    (obj.cls = "MCS" /\ obj.pc \in {"error", "done"}) =>
        \/ obj.pc = "error" /\ obj.err.where = "init_mcs"
        \/ /\ obj.pc = "done"
           /\ Shape(obj.samples) = <<obj.nsamples.n, obj.dimension.n>>
           /\ Shape(obj.samples_u_to_x) = <<obj.nsamples.n, obj.dimension.n>>

\* the validation of MCS, LHS or PSS has succeeded
DesignValidated == obj.cls \in {"MCS", "LHS", "PSS"} /\ obj.pc \in {"run_mcs", "run_lhs", "run_pss"}

\* C20: when the validation of MCS, LHS or PSS succeeds, the list of names
\* and the list of parameters both have exactly dimension entries
C20_ListsOfDimension ==
    DesignValidated =>
        /\ Len(obj.dist_type.items) = obj.dimension.n
        /\ Len(obj.dist_params.items) = obj.dimension.n

---------------------------------------------------------------------------
(* Properties of the registry *)

\* the list held a name that is neither built in nor defined in custom_dist
HeldUnknownName ==
    /\ obj.cls = "registry"
    /\ obj.calls # <<>>
    /\ \E k \in 1..Len(obj.before) : Unresolvable(obj.before[k], obj.cd)

\* C21: resolving a name that is neither built in nor defined by
\* custom_dist fails with NotImplementedError 'Unidentified pdf_type',
\* whether custom_dist.py is absent or present without the name, in pdf,
\* cdf and inv_cdf alike
C21_UnsupportedDistribution ==
    HeldUnknownName =>
        /\ obj.pc = "raised"
        /\ obj.err.type = "NotImplementedError"
        /\ obj.err.msg = "Unidentified pdf_type"

\* the entries of a list that are names
Names(items) == {k \in 1..Len(items) : items[k].t = "str"}

\* C30: a resolver overwrites the names of the caller's list in place and
\* returns that same list: every name has become a function, every other
\* entry is the entry it was, so that a resolver applied to a resolved list
\* changes nothing; STS goes on with its dist_type list holding functions,
\* the list it keeps as icdf
C30_ResolvedInPlace ==
    /\ (obj.cls = "registry" /\ obj.pc = "returned") =>
          LET now == obj.heap[obj.dist]
          IN  /\ obj.returned = obj.dist
              /\ Len(obj.heap) = 1
              /\ Len(now) = Len(obj.before)
              /\ \A k \in 1..Len(now) :
                    IF k \in Names(obj.before)
                    THEN now[k].t = "function"
                    ELSE now[k] = obj.before[k]
              /\ (Names(obj.before) = {} => now = obj.before)
    /\ (obj.cls = "STS" /\ obj.pc \in {"run_sts", "done"}) =>
          /\ obj.dist_type.t = "list"
          /\ Names(obj.dist_type.items) = {}
          /\ \A k \in 1..Len(obj.dist_type.items) : obj.dist_type.items[k].t = "function"
          /\ obj.icdf = obj.dist_type

\* a second, different resolver has returned a list the first had resolved,
\* a list that holds a function of the caller's beside a resolved name
C30_ResolvedTwice ==
    /\ obj.cls = "registry"
    /\ obj.pc = "returned"
    /\ Len(obj.calls) = 2
    /\ obj.calls[1] = "pdf"
    /\ obj.calls[2] = "inv_cdf"
    /\ \E k \in 1..Len(obj.before) : obj.before[k] = Function("user")
    /\ \E k \in 1..Len(obj.before) :
          /\ obj.before[k].t = "function"
          /\ obj.before[k].f = BuiltinPdf["Beta"]
          /\ obj.heap[obj.dist][k] = obj.before[k]

---------------------------------------------------------------------------
(* Properties of the kernels *)

\* C22: every random draw of a run, the Stretch kernel's companion choice,
\* stretch factor and acceptance draw included, is taken from one
\* process-wide generator
C22_OneRandomSource == Cardinality(rngs) <= 1

\* the transitions of the kernels: one proposal has been accepted or rejected
MHMoved == pc = "MH" /\ i' = i + 1
MMHMarginalMoved == pc = "MMH_marginal" /\ <<i', j'>> # <<i, j>>
MMHJointMoved == pc = "MMH_joint" /\ <<i', j'>> # <<i, j>>
StretchMoved == pc = "Stretch" /\ i' = i + 1

\* the raw buffer after the transition, but for the row or entry it writes
OtherRowsKept(r) ==
    /\ Len(samples') = Len(samples)
    /\ \A k \in 0..(Len(samples) - 1) : k # r => At(samples', k) = At(samples, k)

\* C23: in every kernel the successor is the candidate on acceptance and
\* the previous value on rejection.  MH: raw[0] is the seed and raw[i+1] is
\* the candidate or raw[i]; MMH: the same for each coordinate j; Stretch
\* with ensemble size K: raw[i+1] is the candidate or raw[i+1-K].
C23_Successor ==
    [][ /\ (pc = "init" /\ pc' \in {"MH", "MMH_marginal", "MMH_joint"}) =>
              At(samples', 0) = Vec(self.seed)
        /\ MHMoved =>
              /\ accept' \in {"accept", "reject"}
              /\ At(samples', i + 1) = IF accept' = "accept" THEN Vec(candidate') ELSE At(samples, i)
              /\ OtherRowsKept(i + 1)
        /\ MMHMarginalMoved =>
              /\ accept' \in {"accept", "reject"}
              /\ At(samples', i + 1)[j + 1] =
                    IF accept' = "accept" THEN Vec(candidate')[1] ELSE At(samples, i)[j + 1]
              /\ \A q \in 1..Dim : q # j + 1 => At(samples', i + 1)[q] = At(samples, i + 1)[q]
              /\ OtherRowsKept(i + 1)
        /\ MMHJointMoved =>
              /\ accept' \in {"accept", "reject"}
              /\ Vec(current')[j + 1] =
                    IF accept' = "accept" THEN Vec(candidate')[j + 1] ELSE At(samples, i)[j + 1]
              /\ IF i' = i + 1
                 THEN At(samples', i + 1) = Vec(current') /\ OtherRowsKept(i + 1)
                 ELSE samples' = samples
        /\ StretchMoved =>
              /\ accept' \in {"accept", "reject"}
              /\ At(samples', i + 1) =
                    IF accept' = "accept" THEN Vec(candidate')
                    ELSE At(samples, i + 1 - self.ensemble_size.n)
              /\ OtherRowsKept(i + 1)
      ]_vars

\* a Stretch proposal has been rejected: the new row is the walker's
\* previous state, K rows back, not the candidate and not the row before it
C23_StretchRejected ==
    /\ pc = "Stretch"
    /\ i >= self.ensemble_size.n
    /\ accept = "reject"
    /\ At(samples, i) = At(samples, i - self.ensemble_size.n)
    /\ At(samples, i) # Vec(candidate)
    /\ At(samples, i) # At(samples, i - 1)

\* the Stretch loop is about to make the proposal of step i
StretchProposes == pc = "Stretch" /\ i < Rows - 1

\* the walker a raw row is a state of: the rows of one walker are K apart
WalkerOf(r) == r % self.ensemble_size.n

\* C24: at every Stretch step i, K-1 <= i <= nsamples*jump - 2, the
\* companion S is one of the K-1 raw rows i-K+2 .. i, rows already written,
\* each the most recent state of one of the other K-1 walkers; S is never
\* row i-K+1, the walker being updated
C24_Companion ==
    [][ StretchProposes =>
          LET K == self.ensemble_size.n
          IN  /\ K - 1 <= i
              /\ i <= self.nsamples.n * self.jump.n - 2
              /\ S'.t = "int"
              /\ S'.n \in (i - K + 2)..i
              /\ S'.n # i - K + 1
              /\ ComplementaryEnsemble(i) = (i - K + 2)..i
              /\ Cardinality(ComplementaryEnsemble(i)) = K - 1
              /\ \A r \in ComplementaryEnsemble(i) :
                    /\ 0 <= r /\ r <= i
                    /\ WalkerOf(r) # WalkerOf(i + 1)
                    /\ \A q \in 0..i : WalkerOf(q) = WalkerOf(r) => q <= r
              /\ {WalkerOf(r) : r \in ComplementaryEnsemble(i)} \cup {WalkerOf(i + 1)} = 0..(K - 1)
      ]_vars

\* past the seed rows, the companion of the last step was the oldest row of
\* the complementary ensemble, the row next to the walker updated
C24_OldestCompanion ==
    /\ pc = "Stretch"
    /\ S.t = "int"
    /\ i > self.ensemble_size.n
    /\ S.n = i - self.ensemble_size.n + 1
    /\ accept = "accept"

\* MMH, joint_pdf: the loop is about to propose coordinate j of iteration i
MMHJointProposes == pc = "MMH_joint" /\ i < Steps

\* the working vectors when coordinate j is reached: copies of raw[i] at
\* coordinate 0
WorkingCurrent == IF j = 0 THEN At(samples, i) ELSE Vec(current)
WorkingCandidate == IF j = 0 THEN At(samples, i) ELSE Vec(candidate)

\* C25: MMH with joint_pdf processes the coordinates of iteration i in the
\* order j = 0 .. d-1; when coordinate j is proposed the candidate vector
\* is the working current vector in every other coordinate, the proposal
\* for j is centred at raw[i][j], and raw[i+1] is the working vector after
\* coordinate d-1
C25_JointSweep ==
    [][ MMHJointProposes =>
          /\ j \in 0..(Dim - 1)
          /\ WorkingCandidate = WorkingCurrent
          /\ \/ pc' = "error"
             \/ j + 1 < Dim /\ j' = j + 1 /\ i' = i /\ samples' = samples
             \/ j + 1 = Dim /\ j' = 0 /\ i' = i + 1 /\ At(samples', i + 1) = Vec(current')
          /\ \A q \in 1..Dim : q # j + 1 =>
                /\ Vec(candidate')[q] = WorkingCurrent[q]
                /\ Vec(current')[q] = WorkingCurrent[q]
          /\ Vec(current')[j + 1] \in {Vec(candidate')[j + 1], At(samples, i)[j + 1]}
          /\ self.pdf_proposal_type.items[j + 1] = "Uniform" =>
                LET off == Vec(candidate')[j + 1] - At(samples, i)[j + 1]
                    scale == self.pdf_proposal_scale.items[j + 1]
                IN  2 * off <= scale /\ -2 * off <= scale
      ]_vars

\* coordinate 0 has been accepted and coordinate 1 is next: the working
\* vectors agree, differ from raw[i], and raw[i+1] is not written yet
C25_MidSweep ==
    /\ pc = "MMH_joint"
    /\ j = 1
    /\ i >= 1
    /\ i + 1 < Len(samples)
    /\ accept = "accept"
    /\ Vec(candidate) = Vec(current)
    /\ Vec(current)[1] # At(samples, i)[1]
    /\ Vec(current)[2] = At(samples, i)[2]
    /\ At(samples, i + 1) # Vec(current)

\* coordinate k (0-based) of raw row r has been written by the run
Written(run, r, k) ==
    \/ r = 0
    \/ r <= run.i
    \/ r = run.i + 1 /\ k < run.j

\* C26: in MMH with marginal_pdf, coordinate j of every raw state depends
\* only on the seed's coordinate j, the proposal type and scale of
\* dimension j, the target of dimension j and the draws consumed for
\* coordinate j: two runs that differ in the other coordinates only hold
\* the same coordinate j in every raw state both have written
C26_CoordinatesIndependent ==
    obj.cls = "pair" =>
        \A r \in 0..(MaxPairRows - 1) :
            (/\ r < Len(obj.A.samples)
             /\ Written(obj.A, r, obj.focus)
             /\ Written(obj.B, r, obj.focus)) =>
                At(obj.A.samples, r)[obj.focus + 1] = At(obj.B.samples, r)[obj.focus + 1]

\* both runs have returned; they disagree on the other coordinate in every
\* raw row, and the focus coordinate has moved from its seed
C26_RunsDiffer ==
    /\ obj.cls = "pair"
    /\ obj.A.pc = "done" /\ obj.B.pc = "done"
    /\ obj.A.pdf_proposal_type # obj.B.pdf_proposal_type
    /\ obj.A.pdf_target # obj.B.pdf_target
    /\ \A r \in 0..(Len(obj.A.samples) - 1) :
          At(obj.A.samples, r)[2 - obj.focus] # At(obj.B.samples, r)[2 - obj.focus]
    /\ \E r \in 1..(Len(obj.A.samples) - 1) :
          At(obj.A.samples, r)[obj.focus + 1] # obj.A.seed[obj.focus + 1]

---------------------------------------------------------------------------
(* Properties of fullfact's columns *)

\* the product of the first n levels
RECURSIVE ProdBefore(_, _)
ProdBefore(levels, n) == IF n = 0 THEN 1 ELSE levels[n] * ProdBefore(levels, n - 1)

---------------------------------------------------------------------------
(* Properties of the selection of a design *)

\* the first score is strictly better than the second
Better(criterion, x, y) ==
    /\ x.t = "num"
    /\ y.t = "num"
    /\ IF criterion = "maximin" THEN FracLess(y.v, x.v) ELSE FracLess(x.v, y.v)

\* C28: with maximin and with correlate the design returned is one of the
\* lhs_iter trial designs that were scored, none of the trials has a better
\* score, and it is the earliest of the trials with its score
C28_BestTrialKept ==
    (obj.cls = "LHS" /\ obj.pc = "transform" /\ "tried" \in DOMAIN obj) =>
        /\ Len(obj.tried) = obj.lhs_iter.n
        /\ \E k \in 1..Len(obj.tried) :
              /\ obj.tried[k].samples_try = obj.samples.a
              /\ \A m \in 1..Len(obj.tried) :
                    ~Better(obj.lhs_criterion.s, obj.tried[m].score, obj.tried[k].score)
              /\ \A m \in 1..(k - 1) :
                    Better(obj.lhs_criterion.s, obj.tried[k].score, obj.tried[m].score)

---------------------------------------------------------------------------
(* Properties of the acceptance test *)

Kernels == {"MH", "MMH_marginal", "MMH_joint", "Stretch"}

\* the target density of a state is positive: of each coordinate under its
\* own target with marginal_pdf, of the whole point otherwise
PositiveAt(kernel, row) ==
    IF kernel = "MMH_marginal"
    THEN \A q \in 1..Len(row) :
            q <= Len(self.pdf_target.items) => Density(self.pdf_target.items[q], <<row[q]>>, Dim) > 0
    ELSE Density(self.pdf_target.items[1], row, Dim) > 0

\* the seed rows of the raw buffer: the first, or the first K for Stretch
SeedRows == IF pc = "Stretch" THEN 0..(self.ensemble_size.n - 1) ELSE {0}
SeedsPositive == \A r \in SeedRows : r < Len(samples) => PositiveAt(pc, At(samples, r))

\* every raw state written so far has positive density; so has the part of
\* the next one that MMH has settled
RawPositive ==
    /\ \A r \in 0..i : r < Len(samples) => PositiveAt(pc, At(samples, r))
    /\ (pc = "MMH_marginal" /\ i + 1 < Len(samples)) =>
          \A q \in 1..j : q <= Len(self.pdf_target.items) =>
              Density(self.pdf_target.items[q], <<At(samples, i + 1)[q]>>, Dim) > 0
    /\ (pc = "MMH_joint" /\ j > 0) => PositiveAt(pc, Vec(current))

\* the density of the candidate a step has tested
CandidateDensity ==
    IF pc = "MMH_marginal"
    THEN Density(self.pdf_target.items[j + 1], Vec(candidate'), Dim)
    ELSE Density(self.pdf_target.items[1], Vec(candidate'), Dim)

\* C29: a candidate whose target density is 0 is never accepted; so if
\* every seed point has positive target density, every raw state of MH, MMH
\* and Stretch has positive target density and the acceptance ratio is
\* never taken with a zero denominator
C29_PositiveDensity ==
    [][ (pc \in Kernels /\ pc' \in Kernels \cup {"error"}) =>
          /\ (pc' \in Kernels /\ accept' = "accept") => CandidateDensity > 0
          /\ SeedsPositive =>
                /\ RawPositive
                /\ pc' \in Kernels => RawPositive'
                /\ pc' = "error" => err'.type # "ZeroDivisionError"
      ]_vars

\* Stretch has rejected a candidate of density 0: the ensemble started on
\* either side of the gap, the candidate fell into it
C29_ZeroCandidateRejected ==
    /\ pc = "Stretch"
    /\ self.pdf_target.items[1] = "gapped"
    /\ SeedsPositive
    /\ i >= self.ensemble_size.n
    /\ accept = "reject"
    /\ Density(self.pdf_target.items[1], Vec(candidate), Dim) = 0
    /\ RawPositive

=============================================================================
